---- MODULE Spec2Model ----
(***************************************************************************)
(* Product search-and-cache synchronisation of ProductReadService          *)
(* (src/src/modules/product/services/product-read.service.ts).             *)
(*                                                                         *)
(* Text is modelled as a sequence of characters, each a string, so that    *)
(* the regular-expression replacements of the sanitizers are computed, not *)
(* assumed.  JavaScript null is the empty option <<>>, a present value v   *)
(* is <<v>>.                                                               *)
(***************************************************************************)
EXTENDS Integers, Sequences, FiniteSets, TLC

\* F applied to the value of x: x is computed once, before F uses it.
With(x, F(_)) == CHOOSE r \in {F(v) : v \in {x}} : TRUE

(***************************************************************************)
(* Characters: a text is a sequence of UTF-16 code units.  A code unit     *)
(* that can be written as a one-character string is that string; every     *)
(* other one (the control characters, the grave accent, DEL and the codes  *)
(* from 128 on) is the string "U+" followed by its four hex digits.        *)
(***************************************************************************)
HexDigits == <<"0", "1", "2", "3", "4", "5", "6", "7", "8", "9", "A", "B", "C", "D", "E", "F">>
LowerHex == <<"0", "1", "2", "3", "4", "5", "6", "7", "8", "9", "a", "b", "c", "d", "e", "f">>

IsHex(c) == \E k \in 1..16 : c = HexDigits[k] \/ c = LowerHex[k]
HexValue(c) == (CHOOSE k \in 1..16 : c = HexDigits[k] \/ c = LowerHex[k]) - 1

\* The characters of the codes 32 to 95 and 97 to 126.
AsciiLow ==
    <<" ", "!", "\"", "#", "$", "%", "&", "'", "(", ")", "*", "+", ",", "-", ".", "/",
      "0", "1", "2", "3", "4", "5", "6", "7", "8", "9", ":", ";", "<", "=", ">", "?",
      "@", "A", "B", "C", "D", "E", "F", "G", "H", "I", "J", "K", "L", "M", "N", "O",
      "P", "Q", "R", "S", "T", "U", "V", "W", "X", "Y", "Z", "[", "\\", "]", "^", "_">>
AsciiHigh ==
    <<"a", "b", "c", "d", "e", "f", "g", "h", "i", "j", "k", "l", "m", "n", "o",
      "p", "q", "r", "s", "t", "u", "v", "w", "x", "y", "z", "{", "|", "}", "~">>

\* The name of a code unit that has no one-character string.
CodeName(code) ==
    "U+" \o HexDigits[((code \div 4096) % 16) + 1] \o HexDigits[((code \div 256) % 16) + 1]
         \o HexDigits[((code \div 16) % 16) + 1] \o HexDigits[(code % 16) + 1]

\* The character (code unit) of a code from 0 to 65535.
CharOfCode(code) ==
    IF code >= 32 /\ code <= 95 THEN AsciiLow[code - 31]
    ELSE IF code >= 97 /\ code <= 126 THEN AsciiHigh[code - 96]
    ELSE IF code = 9 THEN "\t"
    ELSE IF code = 10 THEN "\n"
    ELSE IF code = 12 THEN "\f"
    ELSE IF code = 13 THEN "\r"
    ELSE CodeName(code)

\* The code units of a code point: itself, or its surrogate pair.
CodePoint(cp) ==
    IF cp < 65536 THEN <<CharOfCode(cp)>>
    ELSE <<CharOfCode(55296 + ((cp - 65536) \div 1024)),
           CharOfCode(56320 + ((cp - 65536) % 1024))>>

\* The grave accent.
Grave == CharOfCode(96)

\* The characters below the space: JSON.parse rejects them inside a string.
ControlChars == {CharOfCode(k) : k \in 0..31}

\* The characters of À-ỹ.
LatinRange == {CharOfCode(k) : k \in 192..7929}

(***************************************************************************)
(* Text helpers (String.prototype.trim / replace / split)                  *)
(***************************************************************************)
\* \s of the regular expressions and the characters trim() removes: the
\* white space and the line terminators of ECMAScript.
IsSpace(c) ==
    c \in {" ", "\t", "\n", "\r", "\f", "U+000B", "U+00A0", "U+1680", "U+2000", "U+2001",
           "U+2002", "U+2003", "U+2004", "U+2005", "U+2006", "U+2007", "U+2008", "U+2009",
           "U+200A", "U+2028", "U+2029", "U+202F", "U+205F", "U+3000", "U+FEFF"}

RECURSIVE TrimLeft(_)
TrimLeft(s) ==
    IF s = <<>> THEN <<>>
    ELSE IF IsSpace(Head(s)) THEN TrimLeft(Tail(s)) ELSE s

RECURSIVE TrimRight(_)
TrimRight(s) ==
    IF s = <<>> THEN <<>>
    ELSE IF IsSpace(s[Len(s)]) THEN TrimRight(SubSeq(s, 1, Len(s) - 1)) ELSE s

\* String.prototype.trim
Trim(s) == TrimRight(TrimLeft(s))

\* replace(/\s+/g, ' '): every maximal run of whitespace becomes one space.
RECURSIVE CollapseSpaces(_)
CollapseSpaces(s) ==
    IF s = <<>> THEN <<>>
    ELSE IF IsSpace(Head(s))
         THEN <<" ">> \o CollapseSpaces(TrimLeft(s))
         ELSE <<Head(s)>> \o CollapseSpaces(Tail(s))

\* replace(/[set]/g, ' '): every character of the class becomes a space.
ReplaceClass(s, class) ==
    [i \in 1..Len(s) |-> IF s[i] \in class THEN " " ELSE s[i]]

Max2(a, b) == IF a >= b THEN a ELSE b

\* The line terminators "." does not match.
LineBreaks == {"\n", "\r", "U+2028", "U+2029"}

\* Index of the first line terminator of s at or after i (Len(s) + 1 when none).
RECURSIVE LineEnd(_, _)
LineEnd(s, i) ==
    IF i > Len(s) THEN i
    ELSE IF s[i] \in LineBreaks THEN i ELSE LineEnd(s, i + 1)

\* The position of the last character of the last occurrence of pat that
\* starts at or after lo and at or before from (0 when there is none).
RECURSIVE LastEndOf(_, _, _, _)
LastEndOf(s, pat, lo, from) ==
    IF from < lo THEN 0
    ELSE IF SubSeq(s, from, from + Len(pat) - 1) = pat
         THEN from + Len(pat) - 1
         ELSE LastEndOf(s, pat, lo, from - 1)

\* The first match of /.*(\?|&)key=/ at or after the line that starts at
\* start: it begins at the start of the first line holding "?key=" or "&key="
\* and, .* being greedy, ends with the last of them on that line.
RECURSIVE StripFrom(_, _, _)
StripFrom(s, key, start) ==
    IF start > Len(s) THEN s
    ELSE LET stop == LineEnd(s, start)
             last == stop - Len(key) - 2
             e == Max2(LastEndOf(s, <<"?">> \o key \o <<"=">>, start, last),
                       LastEndOf(s, <<"&">> \o key \o <<"=">>, start, last))
         IN  IF e > 0 THEN SubSeq(s, 1, start - 1) \o SubSeq(s, e + 1, Len(s))
             ELSE StripFrom(s, key, stop + 1)

\* replace(/.*(\?|&)key=/, '')
StripUrlParam(s, key) == With(s, LAMBDA text : StripFrom(text, key, 1))

\* String.prototype.split(',')
RECURSIVE SplitComma(_, _)
SplitComma(s, acc) ==
    IF s = <<>> THEN <<acc>>
    ELSE IF Head(s) = "," THEN <<acc>> \o SplitComma(Tail(s), <<>>)
         ELSE SplitComma(Tail(s), Append(acc, Head(s)))

\* Array.prototype.join(',')
RECURSIVE JoinComma(_)
JoinComma(list) ==
    IF list = <<>> THEN <<>>
    ELSE IF Len(list) = 1 THEN list[1]
         ELSE list[1] \o <<",">> \o JoinComma(Tail(list))

\* Array.from(new Set(list)): first occurrence kept, order preserved.
RECURSIVE Dedup(_, _)
Dedup(list, seen) ==
    IF list = <<>> THEN <<>>
    ELSE IF Head(list) \in seen THEN Dedup(Tail(list), seen)
         ELSE <<Head(list)>> \o Dedup(Tail(list), seen \cup {Head(list)})

RECURSIVE FilterLen(_)
FilterLen(list) ==
    IF list = <<>> THEN <<>>
    ELSE IF Len(Head(list)) > 0 /\ Len(Head(list)) < 50
         THEN <<Head(list)>> \o FilterLen(Tail(list))
         ELSE FilterLen(Tail(list))

(***************************************************************************)
(* decodeURIComponent: every escape %XX of a code below 128 is its         *)
(* character, and the escapes of a well-formed UTF-8 sequence are the code *)
(* units of its code point; anything else throws URIError.                 *)
(***************************************************************************)
\* The octet of the escape at position i of s, -1 when there is no escape.
Octet(s, i) ==
    IF i + 2 <= Len(s) /\ s[i] = "%" /\ IsHex(s[i + 1]) /\ IsHex(s[i + 2])
    THEN 16 * HexValue(s[i + 1]) + HexValue(s[i + 2])
    ELSE -1

\* A continuation octet of UTF-8.
IsCont(b) == b >= 128 /\ b <= 191

NoEscape == [ok |-> FALSE, next |-> 0, chars |-> <<>>]
Escape(next, chars) == [ok |-> TRUE, next |-> next, chars |-> chars]

\* The escape sequence that starts with the "%" at position i.
PercentCode(s, i) ==
    LET b1 == Octet(s, i)
        b2 == Octet(s, i + 3)
        b3 == Octet(s, i + 6)
        b4 == Octet(s, i + 9)
    IN  IF b1 < 0 THEN NoEscape
        ELSE IF b1 < 128 THEN Escape(i + 3, <<CharOfCode(b1)>>)
        ELSE IF b1 >= 194 /\ b1 <= 223
             THEN IF IsCont(b2)
                  THEN Escape(i + 6, CodePoint((b1 - 192) * 64 + (b2 - 128)))
                  ELSE NoEscape
        ELSE IF b1 >= 224 /\ b1 <= 239
             THEN IF IsCont(b2) /\ IsCont(b3) /\ (b1 = 224 => b2 >= 160) /\ (b1 = 237 => b2 <= 159)
                  THEN Escape(i + 9, CodePoint((b1 - 224) * 4096 + (b2 - 128) * 64 + (b3 - 128)))
                  ELSE NoEscape
        ELSE IF b1 >= 240 /\ b1 <= 244
             THEN IF IsCont(b2) /\ IsCont(b3) /\ IsCont(b4)
                     /\ (b1 = 240 => b2 >= 144) /\ (b1 = 244 => b2 <= 143)
                  THEN Escape(i + 12, CodePoint((b1 - 240) * 262144 + (b2 - 128) * 4096
                                                + (b3 - 128) * 64 + (b4 - 128)))
                  ELSE NoEscape
        ELSE NoEscape

\* TRUE when decodeURIComponent throws URIError on s from position i on.
RECURSIVE UriMalformed(_, _)
UriMalformed(s, i) ==
    IF i > Len(s) THEN FALSE
    ELSE IF s[i] = "%"
         THEN With(PercentCode(s, i), LAMBDA e : IF e.ok THEN UriMalformed(s, e.next) ELSE TRUE)
         ELSE UriMalformed(s, i + 1)

\* decodeURIComponent of a well-formed s from position i on.
RECURSIVE UriDecode(_, _)
UriDecode(s, i) ==
    IF i > Len(s) THEN <<>>
    ELSE IF s[i] = "%"
         THEN With(PercentCode(s, i), LAMBDA e : e.chars \o UriDecode(s, e.next))
         ELSE <<s[i]>> \o UriDecode(s, i + 1)

\* try { clean = decodeURIComponent(clean); } catch {}
TryDecode(s) ==
    With(s, LAMBDA text : IF UriMalformed(text, 1) THEN text ELSE UriDecode(text, 1))

(***************************************************************************)
(* JSON.parse: the value is needed only as far as cleanSystemTags looks at *)
(* it, whether it is an array and which of its elements are strings.       *)
(***************************************************************************)
Digits == {"0", "1", "2", "3", "4", "5", "6", "7", "8", "9"}

\* An array element of a tag value: a string, or a value of another type.
StrElem(text) == [isString |-> TRUE, text |-> text]
NonStrElem == [isString |-> FALSE, text |-> <<>>]

JsonError == [ok |-> FALSE, isArray |-> FALSE, items |-> <<>>]
JsonScalar == [ok |-> TRUE, isArray |-> FALSE, items |-> <<>>]
JsonArray(items) == [ok |-> TRUE, isArray |-> TRUE, items |-> items]

\* Index of the first character of s at or after i that is not JSON whitespace.
RECURSIVE SkipSpace(_, _)
SkipSpace(s, i) ==
    IF i <= Len(s) /\ s[i] \in {" ", "\t", "\n", "\r"} THEN SkipSpace(s, i + 1) ELSE i

\* Index of the first non-digit of s at or after position i (Len(s)+1 when none).
RECURSIVE DigitsEnd(_, _)
DigitsEnd(s, i) ==
    IF i > Len(s) THEN i
    ELSE IF s[i] \in Digits THEN DigitsEnd(s, i + 1) ELSE i

\* A value that failed to parse, and a parsed value ending before position next.
NoValue == [ok |-> FALSE, next |-> 0, elem |-> NonStrElem]
Value(next, elem) == [ok |-> TRUE, next |-> next, elem |-> elem]

\* A list of elements that failed to parse, and one ending before position next.
NoList == [ok |-> FALSE, next |-> 0, items |-> <<>>]
List(next, items) == [ok |-> TRUE, next |-> next, items |-> items]

\* The character a one-letter escape of a JSON string stands for.
Unescaped(c) ==
    IF c = "n" THEN "\n" ELSE IF c = "t" THEN "\t" ELSE IF c = "r" THEN "\r"
    ELSE IF c = "f" THEN "\f" ELSE IF c = "b" THEN CharOfCode(8) ELSE c

\* The code unit of the four hex digits at positions i to i + 3.
Hex4(s, i) ==
    4096 * HexValue(s[i]) + 256 * HexValue(s[i + 1]) + 16 * HexValue(s[i + 2]) + HexValue(s[i + 3])

\* The string whose opening quote is just before position i.
RECURSIVE JsonString(_, _, _)
JsonString(s, i, acc) ==
    IF i > Len(s) THEN NoValue
    ELSE IF s[i] = "\"" THEN Value(i + 1, StrElem(acc))
    ELSE IF s[i] = "\\"
         THEN IF i + 1 > Len(s) THEN NoValue
              ELSE IF s[i + 1] = "u"
                   THEN IF i + 5 <= Len(s) /\ \A k \in 2..5 : IsHex(s[i + k])
                        THEN JsonString(s, i + 6, Append(acc, CharOfCode(Hex4(s, i + 2))))
                        ELSE NoValue
              ELSE IF s[i + 1] \in {"\"", "\\", "/", "b", "f", "n", "r", "t"}
                   THEN JsonString(s, i + 2, Append(acc, Unescaped(s[i + 1])))
                   ELSE NoValue
    ELSE IF s[i] \in ControlChars THEN NoValue
    ELSE JsonString(s, i + 1, Append(acc, s[i]))

\* The number that starts at position i: -?(0|[1-9][0-9]*)(\.[0-9]+)?([eE][+-]?[0-9]+)?
JsonNumber(s, i) ==
    LET at(k) == IF k <= Len(s) THEN s[k] ELSE ""
        int == IF at(i) = "-" THEN i + 1 ELSE i
        intEnd == IF at(int) = "0" THEN int + 1 ELSE DigitsEnd(s, int)
        fracEnd == IF at(intEnd) = "." THEN DigitsEnd(s, intEnd + 1) ELSE intEnd
        exp == IF at(fracEnd) \in {"e", "E"}
               THEN (IF at(fracEnd + 1) \in {"+", "-"} THEN fracEnd + 2 ELSE fracEnd + 1)
               ELSE fracEnd
        expEnd == IF exp = fracEnd THEN fracEnd ELSE DigitsEnd(s, exp)
    IN  IF intEnd = int \/ (at(intEnd) = "." /\ fracEnd = intEnd + 1)
           \/ (exp # fracEnd /\ expEnd = exp)
        THEN NoValue
        ELSE Value(expEnd, NonStrElem)

\* The literal true, false or null at position i.
JsonLiteral(s, i) ==
    LET word(n) == IF i + n - 1 <= Len(s) THEN SubSeq(s, i, i + n - 1) ELSE <<>>
    IN  IF word(4) = <<"t", "r", "u", "e">> THEN Value(i + 4, NonStrElem)
        ELSE IF word(4) = <<"n", "u", "l", "l">> THEN Value(i + 4, NonStrElem)
        ELSE IF word(5) = <<"f", "a", "l", "s", "e">> THEN Value(i + 5, NonStrElem)
        ELSE NoValue

RECURSIVE JsonValue(_, _)
RECURSIVE JsonElems(_, _, _)
RECURSIVE JsonMembers(_, _)

\* The elements of an array from position i on, just after "[" or ",", up to
\* its "]".
JsonElems(s, i, acc) ==
    With(JsonValue(s, SkipSpace(s, i)), LAMBDA v :
        IF ~v.ok THEN NoList
        ELSE With(SkipSpace(s, v.next), LAMBDA j :
            IF j > Len(s) THEN NoList
            ELSE IF s[j] = "]" THEN List(j + 1, Append(acc, v.elem))
            ELSE IF s[j] = "," THEN JsonElems(s, j + 1, Append(acc, v.elem))
            ELSE NoList))

\* The array whose "[" is just before position i.
JsonArrayAt(s, i) ==
    With(SkipSpace(s, i), LAMBDA j :
        IF j <= Len(s) /\ s[j] = "]" THEN List(j + 1, <<>>) ELSE JsonElems(s, j, <<>>))

\* The members of an object from position i on, just after "{" or ",": the
\* position after its "}", 0 when the text is no object.
JsonMembers(s, i) ==
    With(SkipSpace(s, i), LAMBDA k :
        IF k > Len(s) \/ s[k] # "\"" THEN 0
        ELSE With(JsonString(s, k + 1, <<>>), LAMBDA key :
            IF ~key.ok THEN 0
            ELSE With(SkipSpace(s, key.next), LAMBDA c :
                IF c > Len(s) \/ s[c] # ":" THEN 0
                ELSE With(JsonValue(s, SkipSpace(s, c + 1)), LAMBDA v :
                    IF ~v.ok THEN 0
                    ELSE With(SkipSpace(s, v.next), LAMBDA j :
                        IF j > Len(s) THEN 0
                        ELSE IF s[j] = "}" THEN j + 1
                        ELSE IF s[j] = "," THEN JsonMembers(s, j + 1)
                        ELSE 0)))))

\* The object whose "{" is just before position i.
JsonObjectAt(s, i) ==
    With(SkipSpace(s, i), LAMBDA j :
        IF j <= Len(s) /\ s[j] = "}" THEN j + 1 ELSE JsonMembers(s, j))

\* The value that starts at position i.
JsonValue(s, i) ==
    IF i > Len(s) THEN NoValue
    ELSE IF s[i] = "\"" THEN JsonString(s, i + 1, <<>>)
    ELSE IF s[i] = "["
         THEN With(JsonArrayAt(s, i + 1), LAMBDA a :
                  IF a.ok THEN Value(a.next, NonStrElem) ELSE NoValue)
    ELSE IF s[i] = "{"
         THEN With(JsonObjectAt(s, i + 1), LAMBDA e :
                  IF e > 0 THEN Value(e, NonStrElem) ELSE NoValue)
    ELSE IF s[i] \in Digits \cup {"-"} THEN JsonNumber(s, i)
    ELSE JsonLiteral(s, i)

\* JSON.parse of the text at position i, its first character that is no whitespace.
JsonParseAt(s, i) ==
    IF i > Len(s) THEN JsonError
    ELSE IF s[i] = "["
         THEN With(JsonArrayAt(s, i + 1), LAMBDA a :
                  IF a.ok /\ SkipSpace(s, a.next) > Len(s) THEN JsonArray(a.items)
                  ELSE JsonError)
    ELSE With(JsonValue(s, i), LAMBDA v :
             IF v.ok /\ SkipSpace(s, v.next) > Len(s) THEN JsonScalar ELSE JsonError)

JsonParse(s) == With(s, LAMBDA text : JsonParseAt(text, SkipSpace(text, 1)))
(***************************************************************************)
(* Tag Sanitizer and Query Escaper                                         *)
(***************************************************************************)
\* A raw tag value (inputTags: any).
TagArray(items) == [kind |-> "array", items |-> items, text |-> <<>>]
TagString(text) == [kind |-> "string", items |-> <<>>, text |-> text]
TagOther == [kind |-> "other", items |-> <<>>, text |-> <<>>]

\* /[{}()\[\]|@!<>"`'\\]/
DangerousChars ==
    {"{", "}", "(", ")", "[", "]", "|", "@", "!", "<", ">", "\"", Grave, "'", "\\"}

\* /[{}\|@*()\\\[\]]/
TagMetaChars == {"{", "}", "|", "@", "*", "(", ")", "\\", "[", "]"}

\* The callback of tags.map(...) in cleanSystemTags.
CleanOneTag(elem) ==
    IF ~elem.isString THEN <<>>
    ELSE With(StripUrlParam(StripUrlParam(TryDecode(elem.text), <<"q">>),
                            <<"k", "e", "y", "w", "o", "r", "d">>),
              LAMBDA noUrl : CollapseSpaces(Trim(ReplaceClass(noUrl, DangerousChars))))

\* Step 1 of cleanSystemTags: the list of candidates.
NormalizeTags(inputTags) ==
    IF inputTags.kind = "array" THEN inputTags.items
    ELSE IF inputTags.kind = "string"
         THEN With(JsonParse(inputTags.text), LAMBDA parsed :
                  IF ~parsed.ok
                  THEN With(SplitComma(inputTags.text, <<>>), LAMBDA parts :
                           [i \in 1..Len(parts) |-> StrElem(parts[i])])
                  ELSE IF parsed.isArray THEN parsed.items ELSE <<>>)
         ELSE <<>>

cleanSystemTags(inputTags) ==
    With(NormalizeTags(inputTags), LAMBDA tags :
        IF Len(tags) = 0 THEN <<>>
        ELSE JoinComma(Dedup(FilterLen([i \in 1..Len(tags) |-> CleanOneTag(tags[i])]), {})))

sanitizeTagKeyword(str) ==
    With(str, LAMBDA text : CollapseSpaces(Trim(ReplaceClass(text, TagMetaChars))))

\* [a-zA-Z0-9\s\u00C0-\u1EF9\-]
FreeTextAllowed(c) ==
    \/ \E k \in 17..26 : c = AsciiLow[k]
    \/ \E k \in 34..59 : c = AsciiLow[k]
    \/ \E k \in 1..26 : c = AsciiHigh[k]
    \/ IsSpace(c)
    \/ c = "-"
    \/ c \in LatinRange

RECURSIVE EscapeChars(_)
EscapeChars(s) ==
    IF s = <<>> THEN <<>>
    ELSE IF FreeTextAllowed(Head(s))
         THEN <<Head(s)>> \o EscapeChars(Tail(s))
         ELSE <<"\\", Head(s)>> \o EscapeChars(Tail(s))

escapeRediSearchText(str) == With(str, LAMBDA text : Trim(EscapeChars(text)))

(***************************************************************************)
(* Source Store: CatalogItem records                                       *)
(***************************************************************************)
\* Item identifiers of the model.
Ids == {1, 2}

IdText(i) == IF i = 1 THEN <<"p", "1">> ELSE IF i = 2 THEN <<"p", "2">> ELSE <<"p", "3">>

Statuses == {"ACTIVE", "INACTIVE"}

\* JavaScript null / a present value.
Null == <<>>
Some(v) == <<v>>

\* The contents a seller can give a product (everything but id, slug, status).
\* "ao": no sales, no shop city, no list price, no image, a JSON-encoded tag array,
\* in stock.
\* "vay": sales, a shop city with query metacharacters, a comma-delimited tag text,
\* sold out.
Contents ==
    { [name |-> <<"a", "o">>, price |-> 1, originalPrice |-> Null, salesCount |-> 0,
       rating |-> 0, city |-> Null, images |-> <<>>,
       systemTags |-> TagString(<<"[", "\"", "x", "?", "q", "=", "s", "h", "\"", ",",
                                  "\"", "s", "h", "\"", ",", "\"", "{", "b", "}", "t", "\"", "]">>),
       createdAt |-> 7, stock |-> 5],
      [name |-> <<"v", "a", "y">>, price |-> 2, originalPrice |-> Some(3), salesCount |-> 3,
       rating |-> 4, city |-> Some(<<"H", "{", "N", "}">>), images |-> <<<<"i", "1">>, <<"i", "2">>>>,
       systemTags |-> TagString(<<"s", "h", ",", " ", "v", "|", ",", ",", "s", "h">>),
       createdAt |-> 9, stock |-> 0] }

\* A CatalogItem row: identifier, unique slug, status and the contents.
Item(i, status, c) ==
    [id |-> i, slug |-> IdText(i), status |-> status, name |-> c.name, price |-> c.price,
     originalPrice |-> c.originalPrice, salesCount |-> c.salesCount, rating |-> c.rating,
     city |-> c.city, images |-> c.images, systemTags |-> c.systemTags,
     createdAt |-> c.createdAt, stock |-> c.stock]

ItemRows(i) == {Item(i, st, c) : st \in Statuses, c \in Contents}

\* A table: a function from the identifiers of its rows to the rows.
Put(table, k, row) == [i \in DOMAIN table \cup {k} |-> IF i = k THEN row ELSE table[i]]
Remove(table, k) == [i \in DOMAIN table \ {k} |-> table[i]]
EmptyTable == [i \in {} |-> 0]

\* The identifiers of a set in ascending order (the primary-key scan order).
RECURSIVE SortedIds(_)
SortedIds(S) ==
    IF S = {} THEN <<>>
    ELSE LET m == CHOOSE x \in S : \A y \in S : x <= y
         IN  <<m>> \o SortedIds(S \ {m})

(***************************************************************************)
(* The per-item transformation of Full Sync and Incremental Sync           *)
(***************************************************************************)
\* JSON.stringify of an object whose values are numbers, strings, null and
\* arrays of strings: a text that JSON.parse turns back into the same document.
JsonText(doc) == [valid |-> TRUE, doc |-> doc]

\* Number(x || 0) of a nullable decimal column.
NumberOrZero(opt) == IF opt = Null THEN 0 ELSE opt[1]

\* Array.isArray(p.images) && p.images.length > 0 ? p.images[0] : ''
FirstImage(p) == IF Len(p.images) > 0 THEN p.images[1] ELSE <<>>

\* p.shop?.city ? sanitizeTagKeyword(p.shop.city) : 'Khac'
LocationOf(p) ==
    IF p.city # Null /\ p.city[1] # <<>> THEN sanitizeTagKeyword(p.city[1])
    ELSE <<"K", "h", "a", "c">>

\* The JSON mirror payload (frontendJson).
FrontendJson(p) ==
    JsonText([id |-> p.id, name |-> p.name, slug |-> p.slug, price |-> p.price,
              originalPrice |-> NumberOrZero(p.originalPrice),
              images |-> <<FirstImage(p)>>, salesCount |-> p.salesCount,
              location |-> p.city])

\* new Date(x).getTime(): NaN when x is undefined (the row has no such column).
DateMs(p) ==
    IF "createdAt" \in DOMAIN p THEN [nan |-> FALSE, ms |-> p.createdAt]
    ELSE [nan |-> TRUE, ms |-> 0]

\* The columns prisma.product.findMany selects in Full Sync: createdAt is not one.
FullSyncSelect(row) ==
    [f \in {"id", "name", "price", "salesCount", "status", "slug", "images",
            "originalPrice", "systemTags", "rating", "city"} |-> row[f]]

\* The field map syncProductToRedis passes to redis.hset.
IncrementalSyncFields(p) ==
    [name |-> p.name, price |-> p.price, salesCount |-> p.salesCount,
     rating |-> p.rating, location |-> LocationOf(p), status |-> p.status,
     id |-> p.id, slug |-> p.slug, json |-> FrontendJson(p),
     systemTags |-> cleanSystemTags(p.systemTags)]

\* The field map syncAllProductsToRedis passes to pipeline.hset.
FullSyncFields(p) ==
    [name |-> p.name, price |-> p.price, salesCount |-> p.salesCount,
     rating |-> p.rating, location |-> LocationOf(p), status |-> p.status,
     id |-> p.id, slug |-> p.slug, json |-> FrontendJson(p),
     systemTags |-> cleanSystemTags(p.systemTags), createdAt |-> DateMs(p)]

\* const score = p.salesCount > 0 ? p.salesCount : 1
SuggestionScore(p) == IF p.salesCount > 0 THEN p.salesCount ELSE 1

\* The SuggestionEntry FT.SUGADD stores under the display name.
SuggestionOf(p) ==
    [score |-> SuggestionScore(p),
     payload |-> JsonText([id |-> p.id, slug |-> p.slug, price |-> p.price,
                           image |-> FirstImage(p)])]

(***************************************************************************)
(* Index Store commands                                                    *)
(***************************************************************************)
\* HSET that sets the fields of a hash that exists and creates none.
HashSetExisting(store, key, fields) ==
    IF key \in DOMAIN store
    THEN [store EXCEPT ![key] = [f \in DOMAIN store[key] \cup DOMAIN fields |->
                                   IF f \in DOMAIN fields THEN fields[f] ELSE store[key][f]]]
    ELSE store

\* HSET under a key that lost the identifier: every product goes to one hash.
HashSetOneKey(store, key, fields) ==
    [i \in DOMAIN store \cup {1} |-> IF i = 1 THEN fields ELSE store[i]]

\* HSET key field value ...: the given fields are set, the others are kept.
HashSet(store, key, fields) ==
    IF key \in DOMAIN store
    THEN Put(store, key, [f \in DOMAIN store[key] \cup DOMAIN fields |->
                             IF f \in DOMAIN fields THEN fields[f] ELSE store[key][f]])
    ELSE Put(store, key, fields)

\* FT.SUGADD key string score PAYLOAD payload: the entry of the string is replaced.
SugAdd(dict, name, entry) == Put(dict, name, entry)

(***************************************************************************)
(* Index Store: FT.SEARCH over the hashes under the index prefix           *)
(***************************************************************************)
RECURSIVE SplitSpaces(_, _)
\* split(/\s+/) of a trimmed text.
SplitSpaces(s, acc) ==
    IF s = <<>> THEN <<acc>>
    ELSE IF IsSpace(Head(s)) THEN <<acc>> \o SplitSpaces(TrimLeft(s), <<>>)
         ELSE SplitSpaces(Tail(s), Append(acc, Head(s)))

IsPrefix(t, w) == Len(t) <= Len(w) /\ SubSeq(w, 1, Len(t)) = t

\* TRUE when pat occurs in text (LIKE %pat%).
Contains(text, pat) ==
    \E k \in 1..(Len(text) - Len(pat) + 1) : SubSeq(text, k, k + Len(pat) - 1) = pat

\* The query parser's reading of an escaped token: \c stands for c.
RECURSIVE Unescape(_)
Unescape(s) ==
    IF s = <<>> THEN <<>>
    ELSE IF Head(s) = "\\" /\ Len(s) >= 2 THEN <<s[2]>> \o Unescape(SubSeq(s, 3, Len(s)))
         ELSE <<Head(s)>> \o Unescape(Tail(s))

Range(seq) == {seq[k] : k \in 1..Len(seq)}

\* The tags of a TAG field: the comma-separated elements, trimmed.
TagsOf(text) == {Trim(t) : t \in Range(SplitComma(text, <<>>))} \ {<<>>}

\* A clause that is absent from the query string.
NoClause == <<>>

\* TRUE when the hash matches the query.  q is the query string as the parser
\* reads it: the status tag, and the optional text, tag, location, price and
\* rating clauses.
Matches(h, q) ==
    /\ "status" \in DOMAIN h /\ h.status = q.status
    /\ q.text = NoClause
         \/ (\A t \in Range(q.text[1].tokens) :
                \E w \in Range(SplitSpaces(Trim(h.name), <<>>)) : IsPrefix(Unescape(t), w))
         \/ q.text[1].tag \in TagsOf(h.systemTags)
    /\ q.tag = NoClause \/ q.tag[1] \in TagsOf(h.systemTags)
    /\ q.location = NoClause \/ h.location \in Range(q.location[1])
    /\ q.price = NoClause
         \/ /\ (q.price[1].min = Null \/ h.price >= q.price[1].min[1])
            /\ (q.price[1].max = Null \/ h.price <= q.price[1].max[1])
    /\ q.rating = NoClause \/ h.rating >= q.rating[1]

\* The fields of the schema the query names.
QueryFields(q) ==
    {"status"}
    \cup (IF q.text = NoClause THEN {} ELSE {"name", "systemTags"})
    \cup (IF q.tag = NoClause THEN {} ELSE {"systemTags"})
    \cup (IF q.location = NoClause THEN {} ELSE {"location"})
    \cup (IF q.price = NoClause THEN {} ELSE {"price"})
    \cup (IF q.rating = NoClause THEN {} ELSE {"rating"})

\* The keys of the matching hashes in SORTBY order (ties by key).
RECURSIVE SortKeys(_, _, _, _)
SortKeys(store, keys, field, dir) ==
    IF keys = {} THEN <<>>
    ELSE LET first == CHOOSE k \in keys : \A o \in keys :
                          \/ (dir = "ASC" /\ store[k][field] < store[o][field])
                          \/ (dir = "DESC" /\ store[k][field] > store[o][field])
                          \/ (store[k][field] = store[o][field] /\ k <= o)
         IN  <<first>> \o SortKeys(store, keys \ {first}, field, dir)

\* LIMIT offset num of a list.
Page(list, skip, limit) ==
    IF skip >= Len(list) THEN <<>>
    ELSE SubSeq(list, skip + 1, IF skip + limit <= Len(list) THEN skip + limit ELSE Len(list))

\* A text that is not a JSON document (a field label, a damaged payload).
PlainText(chars) == [valid |-> FALSE, doc |-> chars]
JsonLabel == PlainText(<<"j", "s", "o", "n">>)

\* The reply of FT.SEARCH ... RETURN 1 json: the total, then per document its
\* key and the list <<"json", payload>> (empty when the hash has no such field).
SearchReply(total, docs) == [kind |-> "array", total |-> Some(total), docs |-> docs]
SearchThrows == [kind |-> "throw", total |-> Null, docs |-> <<>>]

MatchingKeys(store, q) == {k \in DOMAIN store : Matches(store[k], q)}

FtSearch(store, idx, q, skip, limit, field, dir) ==
    IF ~idx.exists \/ ~(QueryFields(q) \cup {field} \subseteq idx.fields)
    THEN SearchThrows
    ELSE LET keys == Page(SortKeys(store, MatchingKeys(store, q), field, dir), skip, limit)
         IN  SearchReply(Cardinality(MatchingKeys(store, q)),
                         [k \in 1..Len(keys) |->
                             [key |-> keys[k],
                              fields |-> IF "json" \in DOMAIN store[keys[k]]
                                         THEN Some(<<JsonLabel, store[keys[k]].json>>)
                                         ELSE Some(<<>>)]])

(***************************************************************************)
(* Query Planner: findAllPublic                                            *)
(***************************************************************************)
\* A request (FindAllPublicDto): every parameter is optional.
Request(page, limit, search, tag, minPrice, maxPrice, rating, sort, locations) ==
    [page |-> page, limit |-> limit, search |-> search, tag |-> tag, minPrice |-> minPrice,
     maxPrice |-> maxPrice, rating |-> rating, sort |-> sort, locations |-> locations]

\* JavaScript truthiness of an optional number and of an optional text.
\* The request without parameters.
NoParams == Request(Null, Null, Null, Null, Null, Null, Null, Null, Null)

NumTruthy(opt) == opt # Null /\ opt[1] # 0
StrTruthy(opt) == opt # Null /\ opt[1] # <<>>

\* Math.max(1, Number(query.page) || 1) and Math.max(1, Number(query.limit) || 20)
PageOf(query) == Max2(1, IF NumTruthy(query.page) THEN query.page[1] ELSE 1)
LimitOf(query) == Max2(1, IF NumTruthy(query.limit) THEN query.limit[1] ELSE 20)
SkipOf(query) == (PageOf(query) - 1) * LimitOf(query)

\* const searchKeyword = query.search ? query.search.trim() : ''
SearchKeyword(query) == IF StrTruthy(query.search) THEN Trim(query.search[1]) ELSE <<>>

HasLocations(query) == query.locations # Null /\ Len(query.locations[1]) > 0

shouldUseRedis(query) ==
    \/ Len(SearchKeyword(query)) > 0
    \/ StrTruthy(query.tag)
    \/ NumTruthy(query.minPrice)
    \/ NumTruthy(query.maxPrice)
    \/ NumTruthy(query.rating)
    \/ HasLocations(query)

\* The clauses concatenated into ftQuery.
FtQuery(query) ==
    LET kw == SearchKeyword(query)
        cleanName == escapeRediSearchText(kw)
        words == SplitSpaces(cleanName, <<>>)
    IN  [status |-> "ACTIVE",
         text |-> IF kw # <<>> /\ cleanName # <<>>
                  THEN Some([tokens |-> [k \in 1..Len(words) |-> words[k]],
                             tag |-> sanitizeTagKeyword(kw)])
                  ELSE NoClause,
         tag |-> IF StrTruthy(query.tag) THEN Some(sanitizeTagKeyword(query.tag[1]))
                 ELSE NoClause,
         location |-> IF HasLocations(query)
                      THEN Some([k \in 1..Len(query.locations[1]) |->
                                    sanitizeTagKeyword(query.locations[1][k])])
                      ELSE NoClause,
         price |-> IF query.minPrice # Null \/ query.maxPrice # Null
                   THEN Some([min |-> query.minPrice, max |-> query.maxPrice])
                   ELSE NoClause,
         rating |-> IF NumTruthy(query.rating) THEN Some(query.rating[1]) ELSE NoClause]

\* SORTBY of the index path.
IndexSortField(query) ==
    IF query.sort = Some("price_asc") \/ query.sort = Some("price_desc") THEN "price"
    ELSE "salesCount"

IndexSortDir(query) == IF query.sort = Some("price_asc") THEN "ASC" ELSE "DESC"

\* JSON.parse of a reply text.
ParseThrows(text) == ~text.valid

\* fields[fields.indexOf('json') + 1]: the element after the first "json"
\* label, the first element when there is no label, undefined past the end.
JsonStrOf(fields) ==
    LET labels == {k \in 1..Len(fields) : ~fields[k].valid /\ fields[k].doc = JsonLabel.doc}
        at == IF labels = {} THEN 1
              ELSE (CHOOSE k \in labels : \A o \in labels : k <= o) + 1
    IN  IF at <= Len(fields) THEN Some(fields[at]) ELSE Null

\* The documents the loop over searchRes reads a payload from.
DocPayloads(docs) ==
    LET usable == {k \in 1..Len(docs) :
                      /\ docs[k].fields # Null
                      /\ Len(docs[k].fields[1]) >= 2
                      /\ JsonStrOf(docs[k].fields[1]) # Null
                      /\ (JsonStrOf(docs[k].fields[1])[1].valid
                            \/ JsonStrOf(docs[k].fields[1])[1].doc # <<>>)}
        order == SortedIds(usable)
    IN  [k \in 1..Len(order) |-> JsonStrOf(docs[order[k]].fields[1])[1]]

\* Math.ceil(total / limit), NaN (Null) when total is undefined.
CeilDiv(total, limit) ==
    IF total = Null THEN Null ELSE Some((total[1] + limit - 1) \div limit)

PageMeta(total, page, limit, lastPage) ==
    [total |-> total, page |-> page, limit |-> limit, last_page |-> lastPage]

\* What the try block of the index path ends with: it throws, or it returns
\* the page built from the reply.
IndexPath(query, reply) ==
    IF reply.kind # "array" THEN [threw |-> TRUE, data |-> <<>>, meta |-> PageMeta(Null, 0, 0, Null)]
    ELSE LET texts == DocPayloads(reply.docs)
         IN  IF \E k \in 1..Len(texts) : ParseThrows(texts[k])
             THEN [threw |-> TRUE, data |-> <<>>, meta |-> PageMeta(Null, 0, 0, Null)]
             ELSE [threw |-> FALSE,
                   data |-> [k \in 1..Len(texts) |-> texts[k].doc],
                   meta |-> PageMeta(reply.total, PageOf(query), LimitOf(query),
                                     CeilDiv(reply.total, LimitOf(query)))]

\* The Prisma where clause of the fallback.
DbWhere(row, query) ==
    LET kw == SearchKeyword(query)
    IN  /\ row.status = "ACTIVE"
        /\ kw = <<>> \/ Contains(row.name, kw) \/ Contains(row.systemTags.text, kw)
        /\ ~NumTruthy(query.minPrice) \/ row.price >= query.minPrice[1]
        /\ ~NumTruthy(query.maxPrice) \/ row.price <= query.maxPrice[1]
        /\ ~NumTruthy(query.rating) \/ row.rating >= query.rating[1]
        /\ ~HasLocations(query)
             \/ (row.city # Null /\ row.city[1] \in Range(query.locations[1]))
        /\ ~StrTruthy(query.tag) \/ Contains(row.systemTags.text, query.tag[1])

DbSortField(query) ==
    IF query.sort = Some("price_asc") \/ query.sort = Some("price_desc") THEN "price"
    ELSE IF query.sort = Some("newest") THEN "createdAt"
    ELSE "salesCount"

DbSortDir(query) == IF query.sort = Some("price_asc") THEN "ASC" ELSE "DESC"

\* products.map(p => ({ ...p, price, originalPrice, location, images }))
DbItem(row) ==
    [id |-> row.id, slug |-> row.slug, status |-> row.status, name |-> row.name,
     price |-> row.price, originalPrice |-> NumberOrZero(row.originalPrice),
     salesCount |-> row.salesCount, rating |-> row.rating, city |-> row.city,
     images |-> row.images, systemTags |-> row.systemTags, createdAt |-> row.createdAt,
     stock |-> row.stock, location |-> row.city]

\* The products the where clause selects.
DbMatches(table, query) == {i \in DOMAIN table : DbWhere(table[i], query)}

\* findMany({ where, take: limit, skip, orderBy, include }), mapped by
\* products.map(...).
DbRows(table, query) ==
    LET page == Page(SortKeys(table, DbMatches(table, query), DbSortField(query),
                              DbSortDir(query)),
                     SkipOf(query), LimitOf(query))
    IN  [k \in 1..Len(page) |-> DbItem(table[page[k]])]

\* count({ where })
DbCount(table, query) == Cardinality(DbMatches(table, query))

\* resultData = { data, meta: { total, page, limit, last_page } }
DbPage(rows, total, query) ==
    [data |-> rows,
     meta |-> PageMeta(Some(total), PageOf(query), LimitOf(query),
                       CeilDiv(Some(total), LimitOf(query)))]

\* The page the fallback builds when findMany and count read the same table.
DbPath(table, query) == DbPage(DbRows(table, query), DbCount(table, query), query)

\* The empty page of the last line of findAllPublic, whose page is always 1.
EmptyPageOne(query) ==
    [data |-> <<>>, meta |-> PageMeta(Some(0), 1, LimitOf(query), Some(0))]

\* { data: [], meta: { total: 0, page, limit, last_page: 0 } }
EmptyPage(query) ==
    [data |-> <<>>, meta |-> PageMeta(Some(0), PageOf(query), LimitOf(query), Some(0))]

\* A cache condition that forgets the search term.
WritesCacheAnyQuery(page, query) == Len(page.data) > 0

\* A cache condition that forgets the size of the result.
WritesCacheAnySize(page, query) == ~StrTruthy(query.search)

\* if (resultData?.data?.length > 0 && !query.search)
WritesCache(page, query) == Len(page.data) > 0 /\ ~StrTruthy(query.search)

(***************************************************************************)
(* State                                                                   *)
(***************************************************************************)
\* Bounds of the model: Source Store mutations, Full Sync calls, Incremental
\* Sync calls, sync calls of both kinds.
MaxMutations == 2
MaxFullSyncs == 2
MaxIncSyncs == 2
MaxSyncs == 3
\* Bounds of the model: calls in flight at a time of findAllPublic, of
\* findOnePublic, of findBoughtTogether and of getPersonalizedFeed.
MaxCalls == 1
MaxDetailCalls == 2
MaxTogetherCalls == 2
MaxFeedCalls == 1
\* Bound of the model: entries of the Result Cache alive at a time.  A write
\* of a further entry is taken after the expiry of an older one (EX 60).
MaxCached == 2

VARIABLES
    db,         \* Source Store: the product table
    hashes,     \* Index Store: the hashes under product:<id>
    sug,        \* Index Store: the suggestion dictionary sug:products, by string
    index,      \* Index Store: the index idx:products and the fields of its schema
    fs,         \* the syncAllProductsToRedis calls, in flight or not, by order of invocation
    inc,        \* the syncProductToRedis calls, in flight or not, by order of invocation
    boot,       \* position of onModuleInit / ensureSearchIndex
    nMut, nFull, nInc,   \* calls made so far
    readFresh,  \* history: <<kind, call, id>> when the read of id by that sync is later than id's last mutation
    fullSynced, \* history: ids a completed Full Sync covered since their last mutation
    incSynced,  \* history: ids a completed Incremental Sync covered since their last mutation
    ref,        \* history: the Index Store content a reference point left
    store0,     \* history: the Index Store content at the start
    startup,    \* history: the index onModuleInit found, the calls it made, the calls that failed
    cache,      \* Result Cache: the pages stored under search:res:<hash>, by request
    resp,       \* the result of the findAllPublic call that just ended
    call,       \* the findAllPublic calls, in flight or not
    detail,     \* detail cache of ProductCacheService: the cached product, by product id
    found,      \* the result of the findOnePublic call that just ended
    detailCall, \* the findOnePublic calls, in flight or not
    orderItems, \* Source Store: the orderItem table
    together,   \* the lists stored under product:bought_together:<id>, by product id
    bought,     \* the result of the findBoughtTogether call that just ended
    boughtCall, \* the findBoughtTogether calls, in flight or not
    togetherSeen, \* history: the counts of the groupBy a stored list was computed from, by product id
    affinity,   \* Index Store: the ranked set user:affinity:<userId>, by user
    trending,   \* Index Store: the ranked set global:trending
    feed,       \* the result of the getPersonalizedFeed call that just ended
    feedCall,   \* the getPersonalizedFeed calls, in flight or not
    sugSeen     \* history: the status the last writer of a suggestion read, by string

vars == <<db, hashes, sug, index, fs, inc, boot, nMut, nFull, nInc,
          readFresh, fullSynced, incSynced, ref, store0, startup, cache, resp, call,
          detail, found, detailCall, orderItems, together, bought, boughtCall, togetherSeen,
          affinity, trending, feed, feedCall, sugSeen>>

histVars == <<readFresh, fullSynced, incSynced, ref>>
\* The state of the product lookups findOnePublic, findBoughtTogether and
\* getPersonalizedFeed.
detailVars == <<detail, found, detailCall>>
togetherVars == <<orderItems, together, bought, boughtCall, togetherSeen>>
feedVars == <<affinity, trending, feed, feedCall>>
lookupVars == <<detailVars, togetherVars, feedVars>>
readVars == <<cache, resp, call, store0, startup, lookupVars>>
\* What the product lookups leave as it is: the catalog, the Index Store, the
\* syncs and the Result Cache.
searchVars == <<db, hashes, sug, index, fs, inc, boot, nMut, nFull, nInc, histVars,
                cache, resp, call, store0, startup, sugSeen>>

\* The schema createSearchIndex gives the index, and the one of the version
\* before rating and location were added.
CurrentSchema == {"name", "slug", "price", "salesCount", "rating", "location", "status", "systemTags"}
OldSchema == {"name", "slug", "price", "salesCount", "status", "systemTags"}
\* A schema that has rating and location and lacks systemTags.
UntaggedSchema == CurrentSchema \ {"systemTags"}
\* Schemas that lack exactly one of rating and location.
UnratedSchema == CurrentSchema \ {"rating"}
UnlocatedSchema == CurrentSchema \ {"location"}

NoIndex == [exists |-> FALSE, fields |-> {}]
IndexWith(fields) == [exists |-> TRUE, fields |-> fields]

FsIdle == [pc |-> "idle", snap |-> <<>>, next |-> 0, caller |-> "none", clean |-> FALSE]
\* The calls of syncAllProductsToRedis the model follows, none made yet.
FullSyncs == 1..MaxFullSyncs
NoFullSync == [k \in FullSyncs |-> FsIdle]
IncIdle == [pc |-> "idle", id |-> 0, row |-> <<>>]
\* The calls of syncProductToRedis the model follows, none made yet.
IncSyncs == 1..MaxIncSyncs
NoIncSync == [k \in IncSyncs |-> IncIdle]
\* The Full Sync calls after a write to the Index Store or the Source Store
\* that is not a write of call k: no other call has the stores to itself.
Disturbed(k) == [j \in DOMAIN fs |-> IF j = k THEN fs[j] ELSE [fs[j] EXCEPT !.clean = FALSE]]
NoRef == [valid |-> FALSE, hashes |-> EmptyTable, sug |-> EmptyTable]
NoResp == [outcome |-> "none"]
\* No findAllPublic call is in flight; one in flight holds its request, the
\* await it is at (search, db, set), the fault of the index reply and what
\* findMany and count answered so far.
CallIdle == [pc |-> "idle", query |-> NoParams, fault |-> "none", rows |-> Null, total |-> Null]
Calls == 1..MaxCalls
NoCalls == [k \in Calls |-> CallIdle]
\* A findOnePublic call in flight holds its idOrSlug, the await it is at (get,
\* find, set) and the product it mapped.
DetailIdle == [pc |-> "idle", key |-> <<>>, item |-> Null]
DetailCalls == 1..MaxDetailCalls
\* A findBoughtTogether call in flight holds its productId, the await it is at
\* (get, orders, groupBy, products, set) and what its queries answered.
TogetherIdle ==
    [pc |-> "idle", productId |-> 0, orderIds |-> <<>>, relatedIds |-> <<>>,
     counts |-> EmptyTable, activeProducts |-> <<>>]
TogetherCalls == 1..MaxTogetherCalls
\* A getPersonalizedFeed call in flight holds its arguments, the await it is
\* at (affinity, trending, products), the ids read so far and, as history, the
\* affinity set it found and whether it read the trending set.
FeedIdle ==
    [pc |-> "idle", userId |-> "", page |-> 0, limit |-> 0, productIds |-> <<>>,
     own |-> <<>>, trendingRead |-> FALSE]
FeedCalls == 1..MaxFeedCalls

\* onModuleInit has made no call yet on the index it is about to find.
StartupOf(idx) == [index0 |-> idx, calls |-> {}, failed |-> {}]

\* No order was placed, no lookup was made and none is cached.
NoLookups ==
    /\ detail = EmptyTable
    /\ found = NoResp
    /\ detailCall = [k \in DetailCalls |-> DetailIdle]
    /\ orderItems = {}
    /\ together = EmptyTable
    /\ togetherSeen = EmptyTable
    /\ bought = NoResp
    /\ boughtCall = [k \in TogetherCalls |-> TogetherIdle]
    /\ affinity = EmptyTable
    /\ trending = <<>>
    /\ feed = NoResp
    /\ feedCall = [k \in FeedCalls |-> FeedIdle]

\* No sync is in flight, no call was made, nothing is cached.
Idle ==
    /\ fs = NoFullSync
    /\ inc = NoIncSync
    /\ nMut = 0 /\ nFull = 0 /\ nInc = 0
    /\ readFresh = {}
    /\ fullSynced = {}
    /\ incSynced = {}
    /\ ref = NoRef
    /\ cache = EmptyTable
    /\ resp = NoResp
    /\ call = NoCalls
    /\ NoLookups

\* The stores hold no product yet.
Blank ==
    /\ db = EmptyTable
    /\ hashes = EmptyTable
    /\ sug = EmptyTable
    /\ sugSeen = EmptyTable
    /\ store0 = [hashes |-> EmptyTable, sug |-> EmptyTable]
    /\ Idle

\* The service is up: onModuleInit has returned and the index is current.
Init ==
    /\ Blank
    /\ index = IndexWith(CurrentSchema)
    /\ startup = StartupOf(index)
    /\ boot = "done"

\* The service starts: onModuleInit is about to run; the index is absent, of
\* the old schema, of a schema without rating, without location or without
\* systemTags, or current.
InitBoot ==
    /\ Blank
    /\ index \in {NoIndex, IndexWith(OldSchema), IndexWith(UnratedSchema),
                  IndexWith(UnlocatedSchema), IndexWith(UntaggedSchema),
                  IndexWith(CurrentSchema)}
    /\ startup = StartupOf(index)
    /\ boot = "info"

(***************************************************************************)
(* Source Store mutations (made by the write services of the application)  *)
(***************************************************************************)
\* What every mutation of item i does to the history.
Mutated(i) ==
    /\ readFresh' = {x \in readFresh : x[3] # i}
    /\ fullSynced' = fullSynced \ {i}
    /\ incSynced' = incSynced \ {i}
    /\ ref' = NoRef
    /\ fs' = Disturbed(0)
    /\ nMut' = nMut + 1

CreateItem(i, row) ==
    /\ nMut < MaxMutations
    /\ i \notin DOMAIN db
    /\ db' = Put(db, i, row)
    /\ Mutated(i)
    /\ UNCHANGED <<readVars, hashes, sug, index, inc, boot, nFull, nInc, sugSeen>>

UpdateItem(i, row) ==
    /\ nMut < MaxMutations
    /\ i \in DOMAIN db
    /\ row # db[i]
    /\ db' = Put(db, i, row)
    /\ Mutated(i)
    /\ UNCHANGED <<readVars, hashes, sug, index, inc, boot, nFull, nInc, sugSeen>>

DeleteItem(i) ==
    /\ nMut < MaxMutations
    /\ i \in DOMAIN db
    /\ db' = Remove(db, i)
    /\ Mutated(i)
    /\ UNCHANGED <<readVars, hashes, sug, index, inc, boot, nFull, nInc, sugSeen>>

(***************************************************************************)
(* Full Sync: syncAllProductsToRedis                                       *)
(***************************************************************************)
\* A findMany that also leaves out the products the Index Store holds a hash of.
FindManyNotIndexed(table) ==
    LET ids == SortedIds({i \in DOMAIN table : table[i].status = "ACTIVE" /\ i \notin DOMAIN hashes})
    IN  [k \in 1..Len(ids) |-> FullSyncSelect(table[ids[k]])]

\* prisma.product.findMany({ where: { status: 'ACTIVE' }, select: ... })
FindManyActive(table) ==
    LET ids == SortedIds({i \in DOMAIN table : table[i].status = "ACTIVE"})
    IN  [k \in 1..Len(ids) |-> FullSyncSelect(table[ids[k]])]

\* The commands the loop queues on the pipeline: two per product.
PipelineLength(snap) == 2 * Len(snap)

\* The effect of the k-th queued command on the hashes and the dictionary.
PipelineHashes(store, snap, k) ==
    IF k % 2 = 1
    THEN HashSet(store, snap[(k + 1) \div 2].id, FullSyncFields(snap[(k + 1) \div 2]))
    ELSE store

PipelineSug(dict, snap, k) ==
    IF k % 2 = 0
    THEN SugAdd(dict, snap[k \div 2].name, SuggestionOf(snap[k \div 2]))
    ELSE dict

\* The history of onModuleInit after a step of the Full Sync it started.
ByStartup(k) == fs[k].caller \in {"create", "rebuild"}
Called(step) == [startup EXCEPT !.calls = @ \cup {step}]
Failed(step) == [startup EXCEPT !.failed = @ \cup {step}]

\* A caller (an administrative endpoint, a job) invokes syncAllProductsToRedis,
\* whatever other calls of it are in flight: the call runs to its first await.
FullSyncCall ==
    /\ nFull < MaxFullSyncs
    /\ nFull + nInc < MaxSyncs
    /\ fs' = [fs EXCEPT ![nFull + 1] = [FsIdle EXCEPT !.pc = "find", !.caller = "api"]]
    /\ nFull' = nFull + 1
    /\ UNCHANGED <<readVars, db, hashes, sug, index, inc, boot, nMut, nInc, histVars, sugSeen>>

\* await this.prisma.product.findMany(...)
FullSyncRead(k) ==
    /\ fs[k].pc = "find"
    /\ fs' = [fs EXCEPT ![k] = [@ EXCEPT !.pc = "del", !.snap = FindManyActive(db), !.clean = TRUE]]
    /\ readFresh' = readFresh \cup {<<"full", k, i>> : i \in Ids}
    /\ UNCHANGED <<readVars, db, hashes, sug, index, inc, boot, nMut, nFull, nInc,
                   fullSynced, incSynced, ref, sugSeen>>

\* await this.redis.del(SUGGESTION_KEY)
FullSyncDel(k) ==
    /\ fs[k].pc = "del"
    /\ sug' = EmptyTable
    /\ sugSeen' = EmptyTable
    /\ fs' = [Disturbed(k) EXCEPT ![k] = [@ EXCEPT !.pc = "exec", !.next = 1]]
    /\ startup' = IF ByStartup(k) THEN Called("syncWrite") ELSE startup
    /\ UNCHANGED <<lookupVars, cache, resp, call, store0, db, hashes, index, inc, boot, nMut, nFull, nInc, histVars>>

\* await pipeline.exec(): the Index Store runs the queued commands one by one;
\* commands of other clients may run in between.
FullSyncExec(k) ==
    /\ fs[k].pc = "exec"
    /\ fs[k].next <= PipelineLength(fs[k].snap)
    /\ hashes' = PipelineHashes(hashes, fs[k].snap, fs[k].next)
    /\ sug' = PipelineSug(sug, fs[k].snap, fs[k].next)
    /\ sugSeen' = IF fs[k].next % 2 = 0
                  THEN Put(sugSeen, fs[k].snap[fs[k].next \div 2].name,
                           fs[k].snap[fs[k].next \div 2].status)
                  ELSE sugSeen
    /\ fs' = [Disturbed(k) EXCEPT ![k] = [@ EXCEPT !.next = fs[k].next + 1]]
    /\ startup' = IF ByStartup(k) THEN Called("syncWrite") ELSE startup
    /\ UNCHANGED <<lookupVars, cache, resp, call, store0, db, index, inc, boot, nMut, nFull, nInc, histVars>>

\* return { count: products.length }
FullSyncReturn(k) ==
    /\ fs[k].pc = "exec"
    /\ fs[k].next > PipelineLength(fs[k].snap)
    /\ fs' = [fs EXCEPT ![k] = FsIdle]
    /\ boot' = IF ByStartup(k) THEN "done" ELSE boot
    /\ fullSynced' = fullSynced \cup {i \in Ids : <<"full", k, i>> \in readFresh}
    /\ readFresh' = {x \in readFresh : ~(x[1] = "full" /\ x[2] = k)}
    /\ ref' = IF fs[k].clean THEN [valid |-> TRUE, hashes |-> hashes, sug |-> sug] ELSE NoRef
    /\ startup' = IF ByStartup(k) THEN Called("sync") ELSE startup
    /\ UNCHANGED <<lookupVars, cache, resp, call, store0, db, hashes, sug, index, inc, nMut, nFull, nInc, incSynced, sugSeen>>

\* catch (e) { this.logger.error(...) }: a store call of the sync failed.
FullSyncError(k) ==
    /\ fs[k].pc \in {"find", "del", "exec"}
    /\ fs' = [fs EXCEPT ![k] = FsIdle]
    /\ boot' = IF ByStartup(k) THEN "done" ELSE boot
    /\ readFresh' = {x \in readFresh : ~(x[1] = "full" /\ x[2] = k)}
    /\ ref' = NoRef
    /\ startup' = IF ByStartup(k) THEN Failed("sync") ELSE startup
    /\ UNCHANGED <<lookupVars, cache, resp, call, store0, db, hashes, sug, index, inc, nMut, nFull, nInc, fullSynced, incSynced, sugSeen>>

(***************************************************************************)
(* Incremental Sync: syncProductToRedis                                    *)
(***************************************************************************)
\* A write service calls syncProductToRedis({ id: i, ... }), whatever other
\* calls of it are in flight: the call runs to its first await.
IncSyncCall(i) ==
    /\ nInc < MaxIncSyncs
    /\ nFull + nInc < MaxSyncs
    /\ inc' = [inc EXCEPT ![nInc + 1] = [pc |-> "find", id |-> i, row |-> <<>>]]
    /\ nInc' = nInc + 1
    /\ UNCHANGED <<readVars, db, hashes, sug, index, fs, boot, nMut, nFull, histVars, sugSeen>>

\* A read that, finding no row, also deletes the hash of the product.
IncSyncReadPurge(k) ==
    /\ inc[k].pc = "find"
    /\ IF inc[k].id \in DOMAIN db
       THEN /\ inc' = [inc EXCEPT ![k] = [@ EXCEPT !.pc = "hset", !.row = db[inc[k].id]]]
            /\ readFresh' = readFresh \cup {<<"inc", k, inc[k].id>>}
            /\ UNCHANGED hashes
       ELSE /\ inc' = [inc EXCEPT ![k] = IncIdle]
            /\ hashes' = Remove(hashes, inc[k].id)
            /\ UNCHANGED readFresh
    /\ UNCHANGED <<readVars, db, sug, index, fs, boot, nMut, nFull, nInc,
                   fullSynced, incSynced, ref, sugSeen>>

\* await this.prisma.product.findUnique(...); if (!fullProduct) return;
IncSyncRead(k) ==
    /\ inc[k].pc = "find"
    /\ IF inc[k].id \in DOMAIN db
       THEN /\ inc' = [inc EXCEPT ![k] = [@ EXCEPT !.pc = "hset", !.row = db[inc[k].id]]]
            /\ readFresh' = readFresh \cup {<<"inc", k, inc[k].id>>}
       ELSE /\ inc' = [inc EXCEPT ![k] = IncIdle]
            /\ UNCHANGED readFresh
    /\ UNCHANGED <<readVars, db, hashes, sug, index, fs, boot, nMut, nFull, nInc,
                   fullSynced, incSynced, ref, sugSeen>>

\* await this.redis.hset(key, {...})
IncSyncHset(k) ==
    /\ inc[k].pc = "hset"
    /\ hashes' = HashSet(hashes, inc[k].row.id, IncrementalSyncFields(inc[k].row))
    /\ inc' = [inc EXCEPT ![k].pc = "sugadd"]
    /\ ref' = NoRef
    /\ fs' = Disturbed(0)
    /\ UNCHANGED <<readVars, db, sug, index, boot, nMut, nFull, nInc, readFresh, fullSynced, incSynced, sugSeen>>

\* await this.redis.call('FT.SUGADD', ...), then the call returns.
IncSyncSugadd(k) ==
    /\ inc[k].pc = "sugadd"
    /\ sug' = SugAdd(sug, inc[k].row.name, SuggestionOf(inc[k].row))
    /\ sugSeen' = Put(sugSeen, inc[k].row.name, inc[k].row.status)
    /\ inc' = [inc EXCEPT ![k] = IncIdle]
    /\ incSynced' = IF <<"inc", k, inc[k].id>> \in readFresh
                    THEN incSynced \cup {inc[k].id} ELSE incSynced
    /\ readFresh' = readFresh \ {<<"inc", k, inc[k].id>>}
    /\ ref' = NoRef
    /\ fs' = Disturbed(0)
    /\ UNCHANGED <<readVars, db, hashes, index, boot, nMut, nFull, nInc, fullSynced>>

\* A store call of syncProductToRedis rejects: the error leaves the call.
IncSyncError(k) ==
    /\ inc[k].pc # "idle"
    /\ inc' = [inc EXCEPT ![k] = IncIdle]
    /\ readFresh' = readFresh \ {<<"inc", k, inc[k].id>>}
    /\ UNCHANGED <<readVars, db, hashes, sug, index, fs, boot, nMut, nFull, nInc,
                   fullSynced, incSynced, ref, sugSeen>>

(***************************************************************************)
(* Index Schema Manager: onModuleInit, ensureSearchIndex, createSearchIndex*)
(***************************************************************************)
\* A test that any reply of FT.INFO passes, whatever the field.
InfoIncludesAny(idx, field) == idx.exists

\* JSON.stringify(info).includes(field)
InfoIncludes(idx, field) == field \in idx.fields

\* const info = await this.redis.call('FT.INFO', INDEX_NAME).catch(() => null)
\* and the branch taken on it.
BootInfo ==
    /\ boot = "info"
    /\ \E failed \in BOOLEAN :
         /\ boot' = IF failed \/ ~index.exists THEN "create"
                    ELSE IF ~InfoIncludes(index, "rating") \/ ~InfoIncludes(index, "location")
                         THEN "drop"
                         ELSE "done"
         /\ startup' = IF failed THEN Failed("info") ELSE startup
    /\ UNCHANGED <<lookupVars, cache, resp, call, store0, db, hashes, sug, index, fs, inc, nMut, nFull, nInc, histVars, sugSeen>>

\* await this.redis.call('FT.DROPINDEX', INDEX_NAME): the index goes, the
\* hashes stay (no DD argument).
BootDrop ==
    /\ boot = "drop"
    /\ index.exists
    /\ index' = NoIndex
    /\ boot' = "recreate"
    /\ startup' = Called("drop")
    /\ UNCHANGED <<lookupVars, cache, resp, call, store0, db, hashes, sug, fs, inc, nMut, nFull, nInc, histVars, sugSeen>>

\* A create that goes on to the Full Sync also when the index exists.
BootCreateThenSync ==
    /\ boot \in {"create", "recreate"}
    /\ nFull < MaxFullSyncs
    /\ index' = IndexWith(CurrentSchema)
    /\ boot' = "sync"
    /\ startup' = IF index.exists THEN Failed("exists") ELSE Called("create")
    /\ fs' = [fs EXCEPT ![nFull + 1] =
                  [FsIdle EXCEPT !.pc = "find",
                                 !.caller = IF boot = "recreate" THEN "rebuild" ELSE "create"]]
    /\ nFull' = nFull + 1
    /\ UNCHANGED <<lookupVars, cache, resp, call, store0, db, hashes, sug, inc, nMut, nInc, histVars, sugSeen>>

\* FT.CREATE ... then await this.syncAllProductsToRedis(); a create of an
\* index that exists fails with "Index already exists", which is swallowed.
BootCreate ==
    /\ boot \in {"create", "recreate"}
    /\ IF index.exists
       THEN /\ boot' = "done"
            /\ startup' = Failed("exists")
            /\ UNCHANGED <<index, fs, nFull>>
       ELSE /\ nFull < MaxFullSyncs
            /\ index' = IndexWith(CurrentSchema)
            /\ boot' = "sync"
            /\ startup' = Called("create")
            /\ fs' = [fs EXCEPT ![nFull + 1] =
                          [FsIdle EXCEPT !.pc = "find",
                                         !.caller = IF boot = "recreate" THEN "rebuild"
                                                    ELSE "create"]]
            /\ nFull' = nFull + 1
    /\ UNCHANGED <<lookupVars, cache, resp, call, store0, db, hashes, sug, inc, nMut, nInc, histVars, sugSeen>>

\* An error of FT.DROPINDEX or FT.CREATE that no catch takes: it leaves
\* onModuleInit.
BootErrorRaised ==
    /\ boot \in {"drop", "create", "recreate"}
    /\ boot' = "raised"
    /\ startup' = Failed(IF boot = "drop" THEN "drop" ELSE "create")
    /\ UNCHANGED <<lookupVars, cache, resp, call, store0, db, hashes, sug, index, fs, inc, nMut, nFull, nInc, histVars, sugSeen>>

\* FT.DROPINDEX or FT.CREATE rejects: logged by the catch around it.
BootError ==
    /\ boot \in {"drop", "create", "recreate"}
    /\ boot' = "done"
    /\ startup' = Failed(IF boot = "drop" THEN "drop" ELSE "create")
    /\ UNCHANGED <<lookupVars, cache, resp, call, store0, db, hashes, sug, index, fs, inc, nMut, nFull, nInc, histVars, sugSeen>>

\* Another instance of the service, starting at the same time, found no index
\* either and its FT.CREATE comes first.
PeerCreate ==
    /\ boot \in {"create", "recreate"}
    /\ ~index.exists
    /\ index' = IndexWith(CurrentSchema)
    /\ UNCHANGED <<readVars, db, hashes, sug, fs, inc, boot, nMut, nFull, nInc, histVars, sugSeen>>

(***************************************************************************)
(* Read requests                                                           *)
(***************************************************************************)
\* The requests of the model: browse-all, a search term, a blank search term,
\* a tag, price bounds (0 included), locations with a rating floor, every
\* sort key, and absent, zero and negative page and limit.
Requests ==
    { NoParams,
      [NoParams EXCEPT !.search = Some(<<"a", "o">>)],
      [NoParams EXCEPT !.search = Some(<<" ">>)],
      [NoParams EXCEPT !.tag = Some(<<"s", "h">>), !.page = Some(0 - 1), !.limit = Some(0)],
      [NoParams EXCEPT !.minPrice = Some(2), !.sort = Some("price_asc")],
      [NoParams EXCEPT !.minPrice = Some(0), !.sort = Some("newest")],
      [NoParams EXCEPT !.maxPrice = Some(0)],
      [NoParams EXCEPT !.tag = Some(<<"s", "h">>), !.sort = Some("newest")],
      [NoParams EXCEPT !.locations = Some(<<<<"H", "{", "N", "}">>>>), !.rating = Some(4)],
      [NoParams EXCEPT !.page = Some(2), !.limit = Some(1), !.maxPrice = Some(2),
                       !.sort = Some("price_desc")] }

\* What the Index Store can answer instead of the reply of the search: the
\* call rejects, or the reply is null, an empty array, documents without their
\* field list, or documents with a damaged payload.
IndexFaults == {"none", "throw", "null", "empty", "noFields", "badJson"}

Faulty(reply, fault) ==
    IF fault = "none" \/ reply.kind = "throw" THEN reply
    ELSE IF fault = "throw" THEN SearchThrows
    ELSE IF fault = "null" THEN [kind |-> "null", total |-> Null, docs |-> <<>>]
    ELSE IF fault = "empty" THEN [kind |-> "array", total |-> Null, docs |-> <<>>]
    ELSE IF fault = "noFields"
         THEN [reply EXCEPT !.docs = [k \in 1..Len(reply.docs) |->
                                         [reply.docs[k] EXCEPT !.fields = Null]]]
    ELSE [reply EXCEPT !.docs = [k \in 1..Len(reply.docs) |->
                                    [reply.docs[k] EXCEPT !.fields =
                                        Some(<<JsonLabel, PlainText(<<"{">>)>>)]]]

\* The reply the Index Store gives findAllPublic for the query.
ReplyFor(query, fault) ==
    Faulty(FtSearch(hashes, index, FtQuery(query), SkipOf(query), LimitOf(query),
                    IndexSortField(query), IndexSortDir(query)), fault)

\* What a call of findAllPublic hands back: how it ended, the page, the path
\* that built it, whether the Source Store was queried, whether the Result
\* Cache was written and whether FT.SEARCH was called.
Result(outcome, path, page, dbQueried, cacheWrite, c) ==
    [outcome |-> outcome, path |-> path, data |-> page.data, meta |-> page.meta,
     dbQueried |-> dbQueried, cacheWrite |-> cacheWrite,
     indexCalled |-> shouldUseRedis(c.query), query |-> c.query, fault |-> c.fault]

\* What a call that threw leaves its caller with.
NoPage == [data |-> <<>>, meta |-> PageMeta(Null, 0, 0, Null)]

\* The slot a new call takes: the first one with no call in flight.
FreeCall(k) == call[k].pc = "idle" /\ \A j \in 1..(k - 1) : call[j].pc # "idle"

\* A call that answers from the Result Cache when it holds the request.
FindAllPublicCallCached(query) ==
    /\ \E k \in Calls :
         /\ FreeCall(k)
         /\ IF query \in DOMAIN cache
            THEN /\ resp' = [outcome |-> "returned", path |-> "cache", data |-> cache[query].data,
                             meta |-> cache[query].meta, dbQueried |-> FALSE,
                             cacheWrite |-> FALSE, indexCalled |-> FALSE,
                             query |-> query, fault |-> "none"]
                 /\ call' = call
            ELSE /\ call' = [call EXCEPT ![k] =
                               [CallIdle EXCEPT !.pc = IF shouldUseRedis(query) THEN "search" ELSE "db",
                                                !.query = query]]
                 /\ resp' = NoResp
    /\ UNCHANGED <<cache, db, hashes, sug, index, fs, inc, boot, nMut, nFull, nInc, histVars, store0, startup, lookupVars, sugSeen>>

\* A caller invokes findAllPublic(query), whatever other calls are in flight:
\* the call runs to its first await, of FT.SEARCH when shouldUseRedis holds,
\* of the two Source Store queries otherwise.  The result of an earlier call
\* is no longer the latest event.
FindAllPublicCall(query) ==
    /\ \E k \in Calls :
         /\ FreeCall(k)
         /\ call' = [call EXCEPT ![k] =
                       [CallIdle EXCEPT !.pc = IF shouldUseRedis(query) THEN "search" ELSE "db",
                                        !.query = query]]
    /\ resp' = NoResp
    /\ UNCHANGED <<cache, db, hashes, sug, index, fs, inc, boot, nMut, nFull, nInc, histVars, store0, startup, lookupVars, sugSeen>>

\* Call k returns or throws: its caller gets the result (the model holds one
\* result at a time, until Deliver has taken it).
Ends(k, result) ==
    /\ resp = NoResp
    /\ resp' = result
    /\ call' = [call EXCEPT ![k] = CallIdle]

\* Call k goes on to its next await.
GoesOn(k, c) ==
    /\ call' = [call EXCEPT ![k] = c]
    /\ resp' = resp

\* await this.redis.call('FT.SEARCH', ...) is answered: the call returns the
\* page of the reply, or its catch goes on to the two Source Store queries.
FindAllPublicSearch(k, fault) ==
    /\ call[k].pc = "search"
    /\ \E page \in {IndexPath(call[k].query, ReplyFor(call[k].query, fault))} :
         IF page.threw
         THEN GoesOn(k, [call[k] EXCEPT !.pc = "db", !.fault = fault])
         ELSE Ends(k, Result("returned", "index", page, FALSE, FALSE,
                             [call[k] EXCEPT !.fault = fault]))
    /\ UNCHANGED <<cache, db, hashes, sug, index, fs, inc, boot, nMut, nFull, nInc, histVars, store0, startup, lookupVars, sugSeen>>

\* Call k after one of its two Source Store queries was answered, c holding
\* the answers so far: it waits for the other query, or, with both answers,
\* builds the page and awaits the Result Cache write or returns the page.
DbAnswered(k, c) ==
    IF c.rows = Null \/ c.total = Null
    THEN GoesOn(k, c)
    ELSE IF WritesCache(DbPage(c.rows[1], c.total[1], c.query), c.query)
    THEN GoesOn(k, [c EXCEPT !.pc = "set"])
    ELSE Ends(k, Result("returned", "db", DbPage(c.rows[1], c.total[1], c.query),
                        TRUE, FALSE, c))

\* this.prisma.product.findMany({ where, take, skip, orderBy, include }) is answered.
FindAllPublicFindMany(k) ==
    /\ call[k].pc = "db"
    /\ call[k].rows = Null
    /\ DbAnswered(k, [call[k] EXCEPT !.rows = Some(DbRows(db, call[k].query))])
    /\ UNCHANGED <<cache, db, hashes, sug, index, fs, inc, boot, nMut, nFull, nInc, histVars, store0, startup, lookupVars, sugSeen>>

\* this.prisma.product.count({ where }) is answered.
FindAllPublicCount(k) ==
    /\ call[k].pc = "db"
    /\ call[k].total = Null
    /\ DbAnswered(k, [call[k] EXCEPT !.total = Some(DbCount(db, call[k].query))])
    /\ UNCHANGED <<cache, db, hashes, sug, index, fs, inc, boot, nMut, nFull, nInc, histVars, store0, startup, lookupVars, sugSeen>>

\* One of the two Source Store queries rejects: catch (dbErr) returns the
\* empty page.
FindAllPublicDbError(k) ==
    /\ call[k].pc = "db"
    /\ Ends(k, Result("returned", "dbError", EmptyPage(call[k].query), TRUE, FALSE, call[k]))
    /\ UNCHANGED <<cache, db, hashes, sug, index, fs, inc, boot, nMut, nFull, nInc, histVars, store0, startup, lookupVars, sugSeen>>

\* await this.redis.set(cacheKey, ..., 'EX', 60) is answered: the entry is
\* stored and the page returned, or the rejection leaves the call.
FindAllPublicSet(k, cacheFails) ==
    /\ call[k].pc = "set"
    /\ cacheFails \/ call[k].query \in DOMAIN cache \/ Cardinality(DOMAIN cache) < MaxCached
    /\ IF cacheFails
       THEN /\ Ends(k, Result("threw", "db", NoPage, TRUE, FALSE, call[k]))
            /\ cache' = cache
       ELSE /\ Ends(k, Result("returned", "db",
                              DbPage(call[k].rows[1], call[k].total[1], call[k].query),
                              TRUE, TRUE, call[k]))
            /\ cache' = Put(cache, call[k].query,
                            DbPage(call[k].rows[1], call[k].total[1], call[k].query))
    /\ UNCHANGED <<db, hashes, sug, index, fs, inc, boot, nMut, nFull, nInc, histVars, store0, startup, lookupVars, sugSeen>>

\* The steps of a findAllPublic call after its invocation.
FindAllPublicSteps ==
    \/ \E k \in Calls : \E fault \in IndexFaults : FindAllPublicSearch(k, fault)
    \/ \E k \in Calls : FindAllPublicFindMany(k)
    \/ \E k \in Calls : FindAllPublicCount(k)
    \/ \E k \in Calls : FindAllPublicDbError(k)
    \/ \E k \in Calls : \E cacheFails \in BOOLEAN : FindAllPublicSet(k, cacheFails)

\* The caller has taken the result.
Deliver ==
    /\ resp # NoResp
    /\ resp' = NoResp
    /\ UNCHANGED <<cache, call, db, hashes, sug, index, fs, inc, boot, nMut, nFull, nInc, histVars, store0, startup, lookupVars, sugSeen>>

\* The entry of a request passes its 60 seconds.
CacheExpire(query) ==
    /\ query \in DOMAIN cache
    /\ cache' = Remove(cache, query)
    /\ UNCHANGED <<resp, call, db, hashes, sug, index, fs, inc, boot, nMut, nFull, nInc, histVars, store0, startup, lookupVars, sugSeen>>

Mutate ==
    \/ \E i \in Ids : \E row \in ItemRows(i) : CreateItem(i, row)
    \/ \E i \in Ids : \E row \in ItemRows(i) : UpdateItem(i, row)
    \/ \E i \in Ids : DeleteItem(i)

FullSyncSteps ==
    \/ \E k \in FullSyncs : FullSyncRead(k)
    \/ \E k \in FullSyncs : FullSyncDel(k)
    \/ \E k \in FullSyncs : FullSyncExec(k)
    \/ \E k \in FullSyncs : FullSyncReturn(k)
    \/ \E k \in FullSyncs : FullSyncError(k)

IncSyncSteps ==
    \/ \E i \in Ids : IncSyncCall(i)
    \/ \E k \in IncSyncs : IncSyncRead(k)
    \/ \E k \in IncSyncs : IncSyncHset(k)
    \/ \E k \in IncSyncs : IncSyncSugadd(k)
    \/ \E k \in IncSyncs : IncSyncError(k)

BootSteps ==
    \/ BootInfo
    \/ BootDrop
    \/ BootCreate
    \/ BootError
    \/ PeerCreate

\* The running service: mutations of the catalog, Full Sync and Incremental
\* Sync calls.
Next ==
    \/ Mutate
    \/ FullSyncCall
    \/ FullSyncSteps
    \/ IncSyncSteps

Spec == Init /\ [][Next]_vars

\* The starting service: onModuleInit, while the catalog is mutated and
\* incrementally synced (by the instances already running).
NextBoot ==
    \/ Mutate
    \/ IncSyncSteps
    \/ BootSteps
    \/ FullSyncSteps

SpecBoot == InitBoot /\ [][NextBoot]_vars

(***************************************************************************)
(* The read path, over the stores a running service can have left          *)
(***************************************************************************)
\* Every product table over a set of identifiers.
TablesOver(S) == {t \in [S -> UNION {ItemRows(i) : i \in S}] : \A i \in S : t[i].id = i}
Tables == UNION {TablesOver(S) : S \in SUBSET Ids}

\* The hashes Incremental Sync leaves when it runs for every row of a table.
HashesOf(t) == [i \in DOMAIN t |-> IncrementalSyncFields(t[i])]

\* Every row of the table with the other status.
Toggled(t) ==
    [i \in DOMAIN t |->
        [t[i] EXCEPT !.status = IF t[i].status = "ACTIVE" THEN "INACTIVE" ELSE "ACTIVE"]]

\* The Source Store holds any table; the hashes are those of no sync yet, of a
\* sync of the present rows, or of a sync made before the rows changed status.
InitRead ==
    /\ Idle
    /\ boot = "done"
    /\ index \in {NoIndex, IndexWith(CurrentSchema)}
    /\ startup = StartupOf(index)
    /\ db \in Tables
    /\ hashes \in {EmptyTable, HashesOf(db), HashesOf(Toggled(db))}
    /\ sug = EmptyTable
    /\ sugSeen = EmptyTable
    /\ store0 = [hashes |-> hashes, sug |-> sug]

NextRead ==
    \/ \E query \in Requests : FindAllPublicCall(query)
    \/ FindAllPublicSteps
    \/ Deliver
    \/ \E query \in Requests : CacheExpire(query)

SpecRead == InitRead /\ [][NextRead]_vars

\* The running service answers findAllPublic requests while the catalog is
\* mutated.
NextServe ==
    \/ Mutate
    \/ \E query \in Requests : FindAllPublicCall(query)
    \/ FindAllPublicSteps
    \/ Deliver
    \/ \E query \in Requests : CacheExpire(query)

SpecServe == Init /\ [][NextServe]_vars

(***************************************************************************)
(* Product detail: findOnePublic                                           *)
(***************************************************************************)
\* The text of a product id, as a caller passes it.
IdString(i) == IF i = 1 THEN <<"1">> ELSE IF i = 2 THEN <<"2">> ELSE <<"3">>

\* The idOrSlug values of the model: every id, every slug, and a text that is
\* neither.
DetailKeys == {IdString(i) : i \in Ids} \cup {IdText(i) : i \in Ids} \cup {<<"p", "9">>}

\* productCache.getProductDetail(idOrSlug): the entry cached for the product
\* of that id or slug, null on a miss.
getProductDetail(entries, idOrSlug) ==
    LET hits == {i \in DOMAIN entries :
                    IdString(entries[i].id) = idOrSlug \/ entries[i].slug = idOrSlug}
    IN  IF hits = {} THEN Null ELSE Some(entries[CHOOSE i \in hits : TRUE])

\* productCache.setProductDetail(id, slug, product): the entry of the product
\* is replaced; it stays until it expires.
setProductDetail(entries, id, slug, product) == Put(entries, id, product)

\* A lookup by id that forgets the slug.
FindFirstById(table, idOrSlug) ==
    LET hits == {i \in DOMAIN table : IdString(table[i].id) = idOrSlug}
    IN  IF hits = {} THEN Null ELSE Some(table[SortedIds(hits)[1]])

\* prisma.product.findFirst({ where: { OR: [{ id }, { slug: { equals } }] } })
FindFirst(table, idOrSlug) ==
    LET hits == {i \in DOMAIN table :
                    IdString(table[i].id) = idOrSlug \/ table[i].slug = idOrSlug}
    IN  IF hits = {} THEN Null ELSE Some(table[SortedIds(hits)[1]])

\* mappedProduct of a product without options and variants.
MappedProduct(product) ==
    [f \in DOMAIN product \cup {"regularPrice", "tiers", "variations"} |->
        IF f = "regularPrice"
        THEN (IF NumTruthy(product.originalPrice) THEN product.originalPrice ELSE Null)
        ELSE IF f \in {"tiers", "variations"} THEN <<>>
        ELSE product[f]]

\* The slot a new call takes: the first one with no call in flight.
FreeDetailCall(k) == detailCall[k].pc = "idle" /\ \A j \in 1..(k - 1) : detailCall[j].pc # "idle"

\* A caller invokes findOnePublic(idOrSlug), whatever other calls are in
\* flight: the call runs to its first await, of getProductDetail.  The result
\* of an earlier call is no longer the latest event.
FindOnePublicCall(idOrSlug) ==
    /\ \E k \in DetailCalls :
         /\ FreeDetailCall(k)
         /\ detailCall' = [detailCall EXCEPT ![k] =
                             [DetailIdle EXCEPT !.pc = "get", !.key = idOrSlug]]
    /\ found' = NoResp
    /\ UNCHANGED <<detail, togetherVars, feedVars, searchVars>>

\* Call k returns or throws: its caller gets the result (the model holds one
\* result at a time, until FoundDeliver has taken it).
DetailEnds(k, outcome, item, dbQueried) ==
    /\ found = NoResp
    /\ found' = [outcome |-> outcome, item |-> item, dbQueried |-> dbQueried,
                 key |-> detailCall[k].key]
    /\ detailCall' = [detailCall EXCEPT ![k] = DetailIdle]

\* Call k goes on to its next await.
DetailGoesOn(k, c) ==
    /\ detailCall' = [detailCall EXCEPT ![k] = c]
    /\ found' = found

\* await this.productCache.getProductDetail(idOrSlug) is answered: an ACTIVE
\* entry is returned, otherwise the call goes on to the Source Store.
FindOnePublicGet(k) ==
    /\ detailCall[k].pc = "get"
    /\ \E cachedProduct \in {getProductDetail(detail, detailCall[k].key)} :
         IF cachedProduct # Null /\ cachedProduct[1].status = "ACTIVE"
         THEN DetailEnds(k, "returned", cachedProduct, FALSE)
         ELSE DetailGoesOn(k, [detailCall[k] EXCEPT !.pc = "find"])
    /\ UNCHANGED <<detail, togetherVars, feedVars, searchVars>>

\* await this.prisma.product.findFirst(...) is answered: the call throws
\* NotFoundException, or maps the product and awaits setProductDetail.
FindOnePublicFind(k) ==
    /\ detailCall[k].pc = "find"
    /\ \E product \in {FindFirst(db, detailCall[k].key)} :
         IF product = Null \/ product[1].status # "ACTIVE"
         THEN DetailEnds(k, "notFound", Null, TRUE)
         ELSE DetailGoesOn(k, [detailCall[k] EXCEPT
                                  !.pc = "set", !.item = Some(MappedProduct(product[1]))])
    /\ UNCHANGED <<detail, togetherVars, feedVars, searchVars>>

\* await this.productCache.setProductDetail(...) is answered: the entry is
\* stored, whatever the cache holds by now, and the mapped product returned.
FindOnePublicSet(k) ==
    /\ detailCall[k].pc = "set"
    /\ detail' = setProductDetail(detail, detailCall[k].item[1].id, detailCall[k].item[1].slug,
                                  detailCall[k].item[1])
    /\ DetailEnds(k, "returned", detailCall[k].item, TRUE)
    /\ UNCHANGED <<togetherVars, feedVars, searchVars>>

\* getProductDetail, prisma.product.findFirst or setProductDetail rejects:
\* nothing catches the rejection, it leaves the call; a rejected write leaves
\* the detail cache as it is.
FindOnePublicError(k) ==
    /\ detailCall[k].pc \in {"get", "find", "set"}
    /\ DetailEnds(k, "threw", Null, detailCall[k].pc # "get")
    /\ UNCHANGED <<detail, togetherVars, feedVars, searchVars>>

\* The steps of a findOnePublic call after its invocation.
FindOnePublicSteps ==
    \/ \E k \in DetailCalls : FindOnePublicGet(k)
    \/ \E k \in DetailCalls : FindOnePublicFind(k)
    \/ \E k \in DetailCalls : FindOnePublicSet(k)
    \/ \E k \in DetailCalls : FindOnePublicError(k)

\* The caller has taken the result.
FoundDeliver ==
    /\ found # NoResp
    /\ found' = NoResp
    /\ UNCHANGED <<detail, detailCall, togetherVars, feedVars, searchVars>>

\* The entry of a product passes its time to live.
DetailExpire(i) ==
    /\ i \in DOMAIN detail
    /\ detail' = Remove(detail, i)
    /\ UNCHANGED <<found, detailCall, togetherVars, feedVars, searchVars>>

\* The running service answers detail lookups while the catalog is mutated.
NextDetail ==
    \/ Mutate
    \/ \E idOrSlug \in DetailKeys : FindOnePublicCall(idOrSlug)
    \/ FindOnePublicSteps
    \/ FoundDeliver
    \/ \E i \in Ids : DetailExpire(i)

SpecDetail == Init /\ [][NextDetail]_vars

(***************************************************************************)
(* Bought together: findBoughtTogether                                     *)
(***************************************************************************)
\* The products and the orders of the co-purchase model.  A row of the
\* orderItem table is <<orderId, productId>>; a later order has a larger id.
TogetherIds == {1, 2, 3}
OrderIds == {1, 2}
\* The product the lookups of the model ask for.
TogetherAsked == {1}

\* The identifiers of a set in descending order.
RECURSIVE DescIds(_)
DescIds(S) ==
    IF S = {} THEN <<>>
    ELSE LET m == CHOOSE x \in S : \A y \in S : x >= y
         IN  <<m>> \o DescIds(S \ {m})

\* orderItem.findMany({ where: { productId }, select: { orderId }, take: 50,
\* orderBy: { order: { createdAt: 'desc' } } }) and orders.map(o => o.orderId)
OrdersOf(items, productId) ==
    Page(DescIds({it[1] : it \in {x \in items : x[2] = productId}}), 0, 50)

\* _count: { productId: true } of a group of the groupBy.
CoCount(items, orderIds, p) ==
    Cardinality({it \in items : it[1] \in Range(orderIds) /\ it[2] = p})

\* orderItem.groupBy({ by: ['productId'], where: { orderId: { in },
\* productId: { not } }, orderBy: { _count: { productId: 'desc' } }, take: 6 })
\* and relatedItems.map(item => item.productId); equal counts come by product id.
RelatedIds(items, orderIds, productId) ==
    LET groups == {it[2] : it \in {x \in items : x[1] \in Range(orderIds) /\ x[2] # productId}}
        counts == [p \in groups |-> [count |-> CoCount(items, orderIds, p)]]
    IN  Page(SortKeys(counts, groups, "count", "DESC"), 0, 6)

\* product.findMany({ where: { id: { in: relatedIds }, status: 'ACTIVE' } }):
\* no orderBy, the rows come in primary-key order.
FindManyIn(table, ids) ==
    LET kept == SortedIds({i \in Range(ids) : i \in DOMAIN table /\ table[i].status = "ACTIVE"})
    IN  [k \in 1..Len(kept) |-> table[kept[k]]]

\* products.filter(p => p.status === 'ACTIVE' && p.stock > 0)
ActiveProducts(products) == SelectSeq(products, LAMBDA p : p.status = "ACTIVE" /\ p.stock > 0)

\* The slot a new call takes: the first one with no call in flight.
FreeTogetherCall(k) == boughtCall[k].pc = "idle" /\ \A j \in 1..(k - 1) : boughtCall[j].pc # "idle"

\* A caller invokes findBoughtTogether(productId), whatever other calls are
\* in flight: the call runs to its first await, of redis.get(cacheKey).
BoughtTogetherCall(productId) ==
    /\ \E k \in TogetherCalls :
         /\ FreeTogetherCall(k)
         /\ boughtCall' = [boughtCall EXCEPT ![k] =
                             [TogetherIdle EXCEPT !.pc = "get", !.productId = productId]]
    /\ bought' = NoResp
    /\ UNCHANGED <<orderItems, together, togetherSeen, detailVars, feedVars, searchVars>>

\* Call k returns or throws: its caller gets the result (the model holds one
\* result at a time, until BoughtDeliver has taken it).  counts is history:
\* the counts of the groupBy the returned list was computed from.
TogetherEnds(k, outcome, data, cached, counts) ==
    /\ bought = NoResp
    /\ bought' = [outcome |-> outcome, data |-> data, cached |-> cached,
                  productId |-> boughtCall[k].productId, counts |-> counts]
    /\ boughtCall' = [boughtCall EXCEPT ![k] = TogetherIdle]

\* Call k goes on to its next await.
TogetherGoesOn(k, c) ==
    /\ boughtCall' = [boughtCall EXCEPT ![k] = c]
    /\ bought' = bought

\* await this.redis.get(cacheKey) is answered: a cached list is returned,
\* otherwise the call goes on to the orderItem table.
BoughtTogetherGet(k) ==
    /\ boughtCall[k].pc = "get"
    /\ IF boughtCall[k].productId \in DOMAIN together
       THEN TogetherEnds(k, "returned", together[boughtCall[k].productId], TRUE,
                         togetherSeen[boughtCall[k].productId])
       ELSE TogetherGoesOn(k, [boughtCall[k] EXCEPT !.pc = "orders"])
    /\ UNCHANGED <<orderItems, together, togetherSeen, detailVars, feedVars, searchVars>>

\* await this.prisma.orderItem.findMany(...) is answered: without an order
\* the call returns the empty list.
BoughtTogetherOrders(k) ==
    /\ boughtCall[k].pc = "orders"
    /\ \E orderIds \in {OrdersOf(orderItems, boughtCall[k].productId)} :
         IF Len(orderIds) = 0
         THEN TogetherEnds(k, "returned", <<>>, FALSE, EmptyTable)
         ELSE TogetherGoesOn(k, [boughtCall[k] EXCEPT !.pc = "groupBy", !.orderIds = orderIds])
    /\ UNCHANGED <<orderItems, together, togetherSeen, detailVars, feedVars, searchVars>>

\* await this.prisma.orderItem.groupBy(...) is answered: without a related
\* product the call returns the empty list.
BoughtTogetherGroupBy(k) ==
    /\ boughtCall[k].pc = "groupBy"
    /\ \E relatedIds \in {RelatedIds(orderItems, boughtCall[k].orderIds, boughtCall[k].productId)} :
         IF Len(relatedIds) = 0
         THEN TogetherEnds(k, "returned", <<>>, FALSE, EmptyTable)
         ELSE TogetherGoesOn(k, [boughtCall[k] EXCEPT
                                    !.pc = "products", !.relatedIds = relatedIds,
                                    !.counts = [p \in Range(relatedIds) |->
                                                  CoCount(orderItems, boughtCall[k].orderIds, p)]])
    /\ UNCHANGED <<orderItems, together, togetherSeen, detailVars, feedVars, searchVars>>

\* await this.prisma.product.findMany(...) is answered, and
\* products.filter(p => p.status === 'ACTIVE' && p.stock > 0)
BoughtTogetherProducts(k) ==
    /\ boughtCall[k].pc = "products"
    /\ TogetherGoesOn(k, [boughtCall[k] EXCEPT
                             !.pc = "set",
                             !.activeProducts = ActiveProducts(FindManyIn(db, boughtCall[k].relatedIds))])
    /\ UNCHANGED <<orderItems, together, togetherSeen, detailVars, feedVars, searchVars>>

\* await this.redis.set(cacheKey, JSON.stringify(activeProducts), 'EX', 86400)
\* is answered: the list is stored, whatever the key holds by now, and returned.
BoughtTogetherSet(k) ==
    /\ boughtCall[k].pc = "set"
    /\ together' = Put(together, boughtCall[k].productId, boughtCall[k].activeProducts)
    /\ togetherSeen' = Put(togetherSeen, boughtCall[k].productId, boughtCall[k].counts)
    /\ TogetherEnds(k, "returned", boughtCall[k].activeProducts, FALSE, boughtCall[k].counts)
    /\ UNCHANGED <<orderItems, detailVars, feedVars, searchVars>>

\* A store call of the call rejects: the rejection leaves the call.
BoughtTogetherError(k) ==
    /\ boughtCall[k].pc # "idle"
    /\ TogetherEnds(k, "threw", <<>>, FALSE, EmptyTable)
    /\ UNCHANGED <<orderItems, together, togetherSeen, detailVars, feedVars, searchVars>>

\* The steps of a findBoughtTogether call after its invocation.
BoughtTogetherSteps ==
    \/ \E k \in TogetherCalls : BoughtTogetherGet(k)
    \/ \E k \in TogetherCalls : BoughtTogetherOrders(k)
    \/ \E k \in TogetherCalls : BoughtTogetherGroupBy(k)
    \/ \E k \in TogetherCalls : BoughtTogetherProducts(k)
    \/ \E k \in TogetherCalls : BoughtTogetherSet(k)
    \/ \E k \in TogetherCalls : BoughtTogetherError(k)

\* The caller has taken the result.
BoughtDeliver ==
    /\ bought # NoResp
    /\ bought' = NoResp
    /\ UNCHANGED <<orderItems, together, togetherSeen, boughtCall, detailVars, feedVars, searchVars>>

\* The list of a product passes its 24 hours.
TogetherExpire(productId) ==
    /\ productId \in DOMAIN together
    /\ together' = Remove(together, productId)
    /\ togetherSeen' = Remove(togetherSeen, productId)
    /\ UNCHANGED <<orderItems, bought, boughtCall, detailVars, feedVars, searchVars>>

\* The order service places an order of some products: its rows enter the
\* orderItem table.
PlaceOrder(orderId, products) ==
    /\ \A it \in orderItems : it[1] # orderId
    /\ products # {}
    /\ orderItems' = orderItems \cup {<<orderId, p>> : p \in products}
    /\ UNCHANGED <<together, togetherSeen, bought, boughtCall, detailVars, feedVars, searchVars>>

\* The running service over a catalog of three products on sale and in stock;
\* no order was placed and nothing is cached yet.
InitTogether ==
    /\ db \in {[i \in TogetherIds |-> Item(i, "ACTIVE", c)] : c \in {x \in Contents : x.stock > 0}}
    /\ hashes = EmptyTable
    /\ sug = EmptyTable
    /\ sugSeen = EmptyTable
    /\ store0 = [hashes |-> EmptyTable, sug |-> EmptyTable]
    /\ index = IndexWith(CurrentSchema)
    /\ startup = StartupOf(index)
    /\ boot = "done"
    /\ Idle

\* The running service answers bought-together lookups while orders are
\* placed and products are updated (taken off sale, sold out).
NextTogether ==
    \/ \E productId \in TogetherAsked : BoughtTogetherCall(productId)
    \/ BoughtTogetherSteps
    \/ BoughtDeliver
    \/ \E productId \in TogetherAsked : TogetherExpire(productId)
    \/ \E orderId \in OrderIds : \E products \in SUBSET TogetherIds : PlaceOrder(orderId, products)
    \/ \E i \in Ids : \E row \in ItemRows(i) : UpdateItem(i, row)

SpecTogether == InitTogether /\ [][NextTogether]_vars

(***************************************************************************)
(* Personalized feed: getPersonalizedFeed                                  *)
(***************************************************************************)
\* The users, the products and the pages of the feed model.  A ranked set is
\* the list of its members from the highest score down; the key of an empty
\* ranked set does not exist.
Users == {"u1", "u2"}
FeedIds == {1, 2, 3}
MaxRanked == 2
FeedPages == 0..2
FeedLimits == 1..2

\* Every ranked set of at most MaxRanked products.
Rankings ==
    {r \in UNION {[1..n -> FeedIds] : n \in 0..MaxRanked} :
        \A j, k \in 1..Len(r) : j # k => r[j] # r[k]}

\* redis.zrevrange(key, start, stop): the members at the ranks start..stop,
\* a negative rank counting from the end of the set.
zrevrange(ranked, start, stop) ==
    LET n == Len(ranked)
        lo == IF start < 0 THEN Max2(n + start, 0) ELSE start
        hi == IF stop < 0 THEN n + stop ELSE IF stop >= n THEN n - 1 ELSE stop
    IN  IF lo > hi \/ lo >= n THEN <<>> ELSE SubSeq(ranked, lo + 1, hi + 1)

\* The ranked set under user:affinity:<userId>.
AffinityOf(sets, userId) == IF userId \in DOMAIN sets THEN sets[userId] ELSE <<>>

\* The slot a new call takes: the first one with no call in flight.
FreeFeedCall(k) == feedCall[k].pc = "idle" /\ \A j \in 1..(k - 1) : feedCall[j].pc # "idle"

\* A caller invokes getPersonalizedFeed(userId, page, limit), whatever other
\* calls are in flight: the call runs to its first await, of the zrevrange on
\* the affinity set.
GetPersonalizedFeedCall(userId, page, limit) ==
    /\ \E k \in FeedCalls :
         /\ FreeFeedCall(k)
         /\ feedCall' = [feedCall EXCEPT ![k] =
                           [FeedIdle EXCEPT !.pc = "affinity", !.userId = userId,
                                            !.page = page, !.limit = limit]]
    /\ feed' = NoResp
    /\ UNCHANGED <<affinity, trending, detailVars, togetherVars, searchVars>>

\* const start = (page - 1) * limit; const stop = start + limit - 1
FeedStart(c) == (c.page - 1) * c.limit
FeedStop(c) == FeedStart(c) + c.limit - 1

\* Call k goes on to its next await.
FeedGoesOn(k, c) ==
    /\ feedCall' = [feedCall EXCEPT ![k] = c]
    /\ feed' = feed

\* Call k returns or throws: its caller gets the result (the model holds one
\* result at a time, until FeedDeliver has taken it).  own is history: the
\* affinity set of the user when the call read it.
FeedEnds(k, outcome) ==
    /\ feed = NoResp
    /\ feed' = [outcome |-> outcome, productIds |-> feedCall[k].productIds,
                meta |-> [page |-> feedCall[k].page, limit |-> feedCall[k].limit, total |-> 100],
                userId |-> feedCall[k].userId, own |-> feedCall[k].own,
                trendingRead |-> feedCall[k].trendingRead]
    /\ feedCall' = [feedCall EXCEPT ![k] = FeedIdle]

\* await this.redis.zrevrange(trackingKey, start, stop) is answered: an empty
\* page sends the call to the trending set.
GetPersonalizedFeedAffinity(k) ==
    /\ feedCall[k].pc = "affinity"
    /\ \E productIds \in {zrevrange(AffinityOf(affinity, feedCall[k].userId),
                                     FeedStart(feedCall[k]), FeedStop(feedCall[k]))} :
         FeedGoesOn(k, [feedCall[k] EXCEPT
                           !.pc = IF Len(productIds) = 0 THEN "trending" ELSE "products",
                           !.productIds = productIds,
                           !.own = AffinityOf(affinity, feedCall[k].userId)])
    /\ UNCHANGED <<affinity, trending, detailVars, togetherVars, searchVars>>

\* await this.redis.zrevrange('global:trending', start, stop) is answered.
GetPersonalizedFeedTrending(k) ==
    /\ feedCall[k].pc = "trending"
    /\ FeedGoesOn(k, [feedCall[k] EXCEPT
                         !.pc = "products",
                         !.productIds = zrevrange(trending, FeedStart(feedCall[k]),
                                                  FeedStop(feedCall[k])),
                         !.trendingRead = TRUE])
    /\ UNCHANGED <<affinity, trending, detailVars, togetherVars, searchVars>>

\* await this.productCache.getProductsByIds(productIds) is answered: the call
\* returns the page.
GetPersonalizedFeedProducts(k) ==
    /\ feedCall[k].pc = "products"
    /\ FeedEnds(k, "returned")
    /\ UNCHANGED <<affinity, trending, detailVars, togetherVars, searchVars>>

\* A zrevrange of the call or getProductsByIds rejects: nothing catches the
\* rejection, it leaves the call.
GetPersonalizedFeedError(k) ==
    /\ feedCall[k].pc \in {"affinity", "trending", "products"}
    /\ feed = NoResp
    /\ feed' = [outcome |-> "threw", productIds |-> <<>>,
                meta |-> [page |-> feedCall[k].page, limit |-> feedCall[k].limit, total |-> 100],
                userId |-> feedCall[k].userId, own |-> feedCall[k].own,
                trendingRead |-> feedCall[k].trendingRead]
    /\ feedCall' = [feedCall EXCEPT ![k] = FeedIdle]
    /\ UNCHANGED <<affinity, trending, detailVars, togetherVars, searchVars>>

\* The steps of a getPersonalizedFeed call after its invocation.
GetPersonalizedFeedSteps ==
    \/ \E k \in FeedCalls : GetPersonalizedFeedAffinity(k)
    \/ \E k \in FeedCalls : GetPersonalizedFeedTrending(k)
    \/ \E k \in FeedCalls : GetPersonalizedFeedProducts(k)
    \/ \E k \in FeedCalls : GetPersonalizedFeedError(k)

\* The caller has taken the result.
FeedDeliver ==
    /\ feed # NoResp
    /\ feed' = NoResp
    /\ UNCHANGED <<affinity, trending, feedCall, detailVars, togetherVars, searchVars>>

\* The tracking of a user's activity leaves the user's affinity set with
\* other members or other ranks; a set without members does not exist.
TrackAffinity(userId, ranked) ==
    /\ ranked # AffinityOf(affinity, userId)
    /\ affinity' = IF ranked = <<>> THEN Remove(affinity, userId) ELSE Put(affinity, userId, ranked)
    /\ UNCHANGED <<trending, feed, feedCall, detailVars, togetherVars, searchVars>>

\* The tracking leaves the global trending set with other members or ranks.
TrackTrending(ranked) ==
    /\ ranked # trending
    /\ trending' = ranked
    /\ UNCHANGED <<affinity, feed, feedCall, detailVars, togetherVars, searchVars>>

\* The running service answers feed requests while activity is tracked.
NextFeed ==
    \/ \E userId \in Users : \E page \in FeedPages : \E limit \in FeedLimits :
          GetPersonalizedFeedCall(userId, page, limit)
    \/ GetPersonalizedFeedSteps
    \/ FeedDeliver
    \/ \E userId \in Users : \E ranked \in Rankings : TrackAffinity(userId, ranked)
    \/ \E ranked \in Rankings : TrackTrending(ranked)

SpecFeed == Init /\ [][NextFeed]_vars

(***************************************************************************)
(* Properties of the read path (SpecRead)                                  *)
(***************************************************************************)
\* A call of findAllPublic has ended and resp holds its result.
Ended == resp # NoResp

\* C1: findAllPublic never lets an exception reach its caller, whatever the
\* Index Store, the Source Store and the Result Cache do: every call that
\* ends has returned a page.
C1_NeverThrows == Ended => resp.outcome = "returned"

\* C2: when the index search rejects, or its reply is malformed or empty, the
\* page the call returns is the one the Source Store path builds for the same
\* request: the Source Store was queried and the page does not come from the
\* reply.
C2_BadReplyFallsBack ==
    (Ended /\ resp.outcome = "returned" /\ shouldUseRedis(resp.query)
        /\ resp.fault \in IndexFaults \ {"none"})
    => (resp.dbQueried /\ resp.path # "index")

\* C3: when the Source Store query fails, the call returns the empty page
\* { data: [], meta: { total: 0, page, limit, last_page: 0 } } with the
\* normalized page and limit, and leaves the Result Cache as it was.
C3_DbFailureEmptyPage ==
    [][(~Ended /\ resp' # NoResp /\ resp'.path = "dbError")
       => /\ resp'.outcome = "returned"
          /\ resp'.data = <<>>
          /\ resp'.meta = [total |-> Some(0),
                           page |-> IF NumTruthy(resp'.query.page) /\ resp'.query.page[1] > 1
                                    THEN resp'.query.page[1] ELSE 1,
                           limit |-> IF ~NumTruthy(resp'.query.limit) THEN 20
                                     ELSE IF resp'.query.limit[1] > 1
                                          THEN resp'.query.limit[1] ELSE 1,
                           last_page |-> Some(0)]
          /\ ~resp'.cacheWrite
          /\ cache' = cache]_vars

\* A Source Store failure answered a request for page 2 with limit 1, after
\* the index path was tried and failed.
C3_Witness ==
    /\ Ended
    /\ resp.path = "dbError"
    /\ resp.query.page = Some(2)
    /\ resp.query.limit = Some(1)
    /\ shouldUseRedis(resp.query)

(***************************************************************************)
(* Properties of the syncs (Spec, SpecBoot)                                *)
(***************************************************************************)
ActiveItem(i) == i \in DOMAIN db /\ db[i].status = "ACTIVE"

\* The items a completed sync covered since their last mutation.
Synced == fullSynced \cup incSynced

\* Full Sync call k has made all its store calls and is about to return.
FullSyncDone(k) == fs[k].pc = "exec" /\ fs[k].next > PipelineLength(fs[k].snap)

\* No Incremental Sync is in flight.
IncSyncsIdle == \A k \in IncSyncs : inc[k].pc = "idle"

\* Some request of the model, answered by the index path, returns item i.
ReturnedByIndex(i) ==
    \E query \in Requests :
        /\ shouldUseRedis(query)
        /\ \E r \in {IndexPath(query, ReplyFor(query, "none"))} :
              /\ ~r.threw
              /\ \E k \in 1..Len(r.data) : r.data[k].id = i

\* The IndexEntry of item i agrees with the transformation of its current
\* record on every field Incremental Sync writes.
EntryCurrent(i) ==
    /\ i \in DOMAIN hashes
    /\ \A f \in DOMAIN IncrementalSyncFields(db[i]) :
          f \in DOMAIN hashes[i] /\ hashes[i][f] = IncrementalSyncFields(db[i])[f]

\* C4 as the spec states it: an IndexEntry exists for an item if and only if
\* the item is ACTIVE and a sync covered it since its last mutation.
C4_EntryIffActiveSynced ==
    \A i \in Ids : (i \in DOMAIN hashes) <=> (ActiveItem(i) /\ i \in Synced)

\* C4, amended: every item that is ACTIVE and was covered by a completed sync
\* since its last mutation has an IndexEntry (the converse fails: entries are
\* written for non-ACTIVE items too and are never removed).
C4_ActiveSyncedHasEntry ==
    \A i \in Ids : (ActiveItem(i) /\ i \in Synced) => i \in DOMAIN hashes

\* An ACTIVE item covered by a sync has its entry, and a non-ACTIVE item
\* covered by an Incremental Sync has one as well.
C4_Witness ==
    \E i, j \in Ids :
        /\ ActiveItem(i) /\ i \in Synced /\ i \in DOMAIN hashes
        /\ j \in DOMAIN db /\ ~ActiveItem(j) /\ j \in incSynced /\ j \in DOMAIN hashes

\* C5: once an item is non-ACTIVE and an Incremental Sync of it has completed
\* since, no request answered by the index path returns the item.
C5_DeactivatedNotReturned ==
    \A i \in incSynced : ~ActiveItem(i) => ~ReturnedByIndex(i)

\* C7: when one Full Sync and one Incremental Sync of an item have both made
\* all their store calls, the IndexEntry of the item equals the transformation
\* of the item's current record.
C7_RaceLeavesCurrent ==
    (nFull = 1 /\ nInc = 1 /\ FullSyncDone(1) /\ IncSyncsIdle)
    => \A i \in incSynced : EntryCurrent(i)

\* C9: a Full Sync run again on an unchanged Source Store, with no other
\* writer in between, leaves the IndexEntries and the SuggestionEntries the
\* first run left.
C9_FullSyncIdempotent ==
    \A k \in FullSyncs :
        (FullSyncDone(k) /\ fs[k].clean /\ ref.valid) => (hashes = ref.hashes /\ sug = ref.sug)

\* The second of two Full Syncs over the same non-empty catalog is done.
C9_Witness ==
    /\ FullSyncDone(2) /\ fs[2].clean /\ ref.valid
    /\ nFull = 2
    /\ Len(fs[2].snap) > 0
    /\ DOMAIN hashes # {}

\* C10: for every ACTIVE item, Incremental Sync writes the same field names,
\* the same values and the same SuggestionEntry as Full Sync writes for it.
C10_SameTransformation ==
    \A i \in Ids :
        ActiveItem(i) =>
            /\ IncrementalSyncFields(db[i]) = FullSyncFields(FullSyncSelect(db[i]))
            /\ SuggestionOf(db[i]) = SuggestionOf(FullSyncSelect(db[i]))

\* C6: when the rebuild (drop index, recreate index, Full Sync) has made all
\* its store calls, no request answered by the index path returns an item that
\* was deleted or non-ACTIVE when the Full Sync read the Source Store.
C6_RebuildPurgesStale ==
    \A k \in FullSyncs :
        (fs[k].caller = "rebuild" /\ FullSyncDone(k))
        => \A i \in Ids : (<<"full", k, i>> \in readFresh /\ ReturnedByIndex(i)) => ActiveItem(i)

(***************************************************************************)
(* Two Incremental Syncs of different items, run concurrently              *)
(***************************************************************************)
\* The two store writes of one syncProductToRedis call, run without any other
\* writer in between.
IncSyncRun(store, row) ==
    [hashes |-> HashSet(store.hashes, row.id, IncrementalSyncFields(row)),
     sug |-> SugAdd(store.sug, row.name, SuggestionOf(row))]

EmptyStore == [hashes |-> EmptyTable, sug |-> EmptyTable]

\* Both items exist, the Index Store is empty or holds what syncs made before
\* the rows changed status left, and syncProductToRedis was just called for
\* each of the two items.
InitTwoSyncs ==
    /\ db \in TablesOver(Ids)
    /\ store0 \in {EmptyStore, IncSyncRun(IncSyncRun(EmptyStore, Toggled(db)[1]), Toggled(db)[2])}
    /\ hashes = store0.hashes
    /\ sug = store0.sug
    /\ sugSeen = [n \in DOMAIN sug |-> IF Toggled(db)[2].name = n THEN Toggled(db)[2].status
                                       ELSE Toggled(db)[1].status]
    /\ index = IndexWith(CurrentSchema)
    /\ startup = StartupOf(index)
    /\ boot = "done"
    /\ fs = NoFullSync
    /\ inc = [k \in IncSyncs |-> IF k \in Ids THEN [pc |-> "find", id |-> k, row |-> <<>>]
                                 ELSE IncIdle]
    /\ nMut = 0 /\ nFull = 0 /\ nInc = 2
    /\ readFresh = {}
    /\ fullSynced = {}
    /\ incSynced = {}
    /\ ref = NoRef
    /\ cache = EmptyTable
    /\ resp = NoResp
    /\ call = NoCalls
    /\ NoLookups

NextTwoSyncs ==
    \/ \E k \in IncSyncs : IncSyncRead(k)
    \/ \E k \in IncSyncs : IncSyncHset(k)
    \/ \E k \in IncSyncs : IncSyncSugadd(k)

SpecTwoSyncs == InitTwoSyncs /\ [][NextTwoSyncs]_vars

\* The Index Store content after the sync of item i, then the sync of item j.
Sequential(i, j) == IncSyncRun(IncSyncRun(store0, db[i]), db[j])

IndexStore == [hashes |-> hashes, sug |-> sug]

\* The IndexEntry of item i in a table of hashes, <<>> when there is none.
EntryOf(table, i) == IF i \in DOMAIN table THEN <<table[i]>> ELSE <<>>

\* C8 as the spec states it: when the two syncs have returned, the Index
\* Store content is the one of the two syncs run one after the other, in
\* either order.
C8_EitherOrder ==
    IncSyncsIdle => (IndexStore = Sequential(1, 2) /\ IndexStore = Sequential(2, 1))

\* C8, amended: a sync never writes the IndexEntry of the other item; when the
\* two syncs have returned, the Index Store content is the one of the two
\* syncs run one after the other in one of the two orders, and in either order
\* when the two items have different display names.
C8_SomeOrder ==
    /\ \A k \in IncSyncs :
          inc[k].pc \in {"find", "hset"}
              => EntryOf(hashes, inc[k].id) = EntryOf(store0.hashes, inc[k].id)
    /\ IncSyncsIdle =>
          /\ IndexStore = Sequential(1, 2) \/ IndexStore = Sequential(2, 1)
          /\ db[1].name # db[2].name =>
                (IndexStore = Sequential(1, 2) /\ IndexStore = Sequential(2, 1))

\* Both syncs have returned over an Index Store that held older entries; the
\* items have different display names.
C8_Witness ==
    /\ IncSyncsIdle
    /\ store0 # EmptyStore
    /\ db[1].name # db[2].name
    /\ hashes # store0.hashes
    /\ IndexStore = Sequential(2, 1)

(***************************************************************************)
(* Incremental Sync of an item that is gone (Spec)                         *)
(***************************************************************************)
\* C11: an Incremental Sync whose read finds no row for its identifier ends
\* at that read, and the step that ends it leaves the Index Store as it was:
\* no hash, no suggestion and no index is written, changed or removed.
C11_MissingItemNoOp ==
    [][\A k \in IncSyncs :
          (inc[k].pc = "find" /\ inc[k].id \notin DOMAIN db /\ inc'[k] # inc[k])
              => /\ inc'[k] = IncIdle
                 /\ hashes' = hashes
                 /\ sug' = sug
                 /\ index' = index]_vars

\* Item 1 was created, synced and deleted, and a second Incremental Sync has
\* ended since: the hash of the deleted item is still there.
C11_Witness ==
    /\ nInc = 2
    /\ nMut = 2
    /\ 1 \notin DOMAIN db
    /\ 1 \in DOMAIN hashes
    /\ IncSyncsIdle

(***************************************************************************)
(* The suggestion dictionary a Full Sync leaves (Spec)                     *)
(***************************************************************************)
\* The display names of the rows of a snapshot.
SnapshotNames(snap) == {snap[k].name : k \in 1..Len(snap)}

\* C12: when a Full Sync returns, the suggestion dictionary holds an entry for
\* exactly the display names of the ACTIVE items of the snapshot it read, each
\* with the score max(salesCount, 1) of such an item; no other entry remains.
C12_SuggestionsAreSnapshot ==
    [][\A c \in FullSyncs :
          FullSyncReturn(c) =>
             /\ DOMAIN sug = SnapshotNames(fs[c].snap)
             /\ \A name \in DOMAIN sug :
                   \E k \in 1..Len(fs[c].snap) :
                       /\ fs[c].snap[k].name = name
                       /\ fs[c].snap[k].status = "ACTIVE"
                       /\ sug[name].score = Max2(fs[c].snap[k].salesCount, 1)]_vars

(***************************************************************************)
(* Result Cache writes of findAllPublic (SpecRead)                         *)
(***************************************************************************)
\* A step in which a call of findAllPublic runs to its end.
CallEnds == resp = NoResp /\ resp' # NoResp

\* C13: a call of findAllPublic whose request carries a free-text search term
\* (a non-empty search parameter) makes no Result Cache write, on the index
\* path and on the Source Store path, whatever the size of the result: the
\* cache is left as it was and no write is attempted.
C13_SearchNeverCached ==
    [][(CallEnds /\ StrTruthy(resp'.query.search))
          => /\ ~resp'.cacheWrite
             /\ resp'.outcome = "returned"
             /\ cache' = cache]_vars

\* A request with a search term was served by the Source Store (the index
\* search having failed) with a non-empty page.
C13_Witness ==
    /\ Ended
    /\ resp.query.search = Some(<<"a", "o">>)
    /\ resp.path = "db"
    /\ Len(resp.data) > 0

\* C14: a call of findAllPublic that returns has written the Result Cache
\* exactly when the Source Store path built its page, the page is not empty and
\* the request has no search term; the entry written is the page returned, and
\* a page of the index path or an empty page leaves the cache as it was.
C14_CacheWriteExactly ==
    [][(CallEnds /\ resp'.outcome = "returned")
          => /\ resp'.cacheWrite <=> /\ resp'.path = "db"
                                     /\ Len(resp'.data) > 0
                                     /\ ~StrTruthy(resp'.query.search)
             /\ cache' = IF resp'.cacheWrite
                         THEN Put(cache, resp'.query, [data |-> resp'.data, meta |-> resp'.meta])
                         ELSE cache]_vars

\* A request of the index path was answered by the Source Store with an empty
\* page, which went uncached next to the cached page of a browse-all request.
C14_Witness ==
    /\ Ended
    /\ resp.path = "db"
    /\ shouldUseRedis(resp.query)
    /\ resp.data = <<>>
    /\ ~resp.cacheWrite
    /\ NoParams \in DOMAIN cache

(***************************************************************************)
(* Startup: onModuleInit (SpecBoot)                                        *)
(***************************************************************************)
\* onModuleInit has returned and none of its calls failed.
StartupClean == boot = "done" /\ startup.failed = {}

\* The index is present and lacks one of the fields of the schema.
LacksAnyField(idx) == idx.exists /\ ~(CurrentSchema \subseteq idx.fields)

\* The index is present and lacks one of the fields the check looks for.
LacksRatingOrLocation(idx) == idx.exists /\ ~({"rating", "location"} \subseteq idx.fields)

\* What a startup whose calls all succeeded has done, given whether it had to
\* find the index stale: create and Full Sync exactly when the index was absent
\* or stale, a drop exactly when it was stale, nothing otherwise.
StartupDid(stale) ==
    /\ {"create", "sync"} \subseteq startup.calls <=> (~startup.index0.exists \/ stale)
    /\ "drop" \in startup.calls <=> stale
    /\ (startup.index0.exists /\ ~stale) => (startup.calls = {} /\ index = startup.index0)

\* C15: a startup whose calls succeed creates the index and runs Full Sync
\* exactly when the index was absent or lacked any of the eight fields of the
\* schema, dropping it first in the latter case; on an index with all eight
\* fields it makes no drop, no create and no sync write.
C15_RebuildIffAnyFieldMissing ==
    StartupClean => StartupDid(LacksAnyField(startup.index0))

\* FT.INFO gave the startup no reply: the index was absent or the call failed.
NoInfo == ~startup.index0.exists \/ "info" \in startup.failed

\* The steps the startup has made, whether they succeeded or failed.
StartupTried == startup.calls \cup startup.failed

\* C15 as the code has it, failed calls included: the index counts as stale
\* exactly when the reply of FT.INFO lacks "rating" or "location".  A startup
\* that has returned has issued FT.DROPINDEX exactly when FT.INFO answered
\* with a stale index; it has issued FT.CREATE exactly when FT.INFO gave no
\* reply (index absent, or the call failed) or its drop succeeded; it has run
\* Full Sync exactly when its FT.CREATE succeeded.  So with every call
\* succeeding it has created and synced exactly when the index was absent or
\* stale, after a drop in the latter case; and on an index with rating and
\* location whose FT.INFO answered it has made no call and left the index as
\* it was, whatever other field the index lacks.
C15_RebuildIffRatingOrLocationMissing ==
    boot = "done" =>
        /\ "drop" \in StartupTried
              <=> (~NoInfo /\ LacksRatingOrLocation(startup.index0))
        /\ {"create", "exists"} \cap StartupTried # {}
              <=> (NoInfo \/ "drop" \in startup.calls)
        /\ "sync" \in StartupTried <=> "create" \in startup.calls
        /\ "syncWrite" \in startup.calls => "create" \in startup.calls
        /\ startup.failed = {} => StartupDid(LacksRatingOrLocation(startup.index0))
        /\ (~NoInfo /\ ~LacksRatingOrLocation(startup.index0))
              => (StartupTried = {} /\ index = startup.index0)

\* The startup found an index that has rating and lacks location, dropped it,
\* created the current one and its Full Sync wrote the products and returned.
C15_Witness ==
    /\ StartupClean
    /\ startup.index0 = IndexWith(UnlocatedSchema)
    /\ startup.calls = {"drop", "create", "syncWrite", "sync"}
    /\ index = IndexWith(CurrentSchema)
    /\ DOMAIN hashes # {}

\* C16: onModuleInit never raises.  Every step in which a call of the startup
\* fails (FT.INFO, FT.DROPINDEX, FT.CREATE, the findMany or a write of the Full
\* Sync) leaves the startup returned, or, after a failed FT.INFO, going on to
\* create the index; no error leaves onModuleInit.
C16_StartupNeverRaises ==
    [][(startup'.failed # startup.failed)
          => /\ boot' # "raised"
             /\ \/ boot' = "done"
                \/ startup'.failed \ startup.failed = {"info"} /\ boot' = "create"]_vars

\* FT.INFO failed, then FT.CREATE failed, and onModuleInit has returned over
\* the index it could not look at.
C16_Witness ==
    /\ boot = "done"
    /\ startup.failed = {"info", "create"}
    /\ startup.calls = {}
    /\ index = startup.index0

\* C17: when FT.CREATE fails because the index already exists, the startup
\* goes on as it does after a successful creation: its Full Sync is run.
C17_ExistsProceedsAsCreated ==
    (boot = "done" /\ "exists" \in startup.failed)
        => "sync" \in startup.calls \cup startup.failed

\* C17 as the code has it: an FT.CREATE that fails because the index exists
\* ends the startup at once and normally; no Full Sync is started, and the
\* Index Store is left to the instance that created the index.
C17_ExistsEndsStartup ==
    "exists" \in startup.failed
        => /\ boot = "done"
           /\ startup.failed \subseteq {"info", "exists"}
           /\ startup.calls \subseteq {"drop"}
           /\ index.exists

\* A creation race: the startup found no index, another instance created it
\* first, and the startup has returned.
C17_Witness ==
    /\ boot = "done"
    /\ startup.index0 = NoIndex
    /\ startup.failed = {"exists"}
    /\ index = IndexWith(CurrentSchema)

\* C18: every page findAllPublic returns, from the index path, the Source
\* Store path or the error page, has an integer total >= 0, a limit >= 1 and
\* last_page = ceil(total / limit): the least n with n * limit >= total.
C18_LastPageIsCeil ==
    (Ended /\ resp.outcome = "returned")
        => /\ resp.meta.total # Null
           /\ resp.meta.total[1] >= 0
           /\ resp.meta.limit >= 1
           /\ resp.meta.last_page # Null
           /\ resp.meta.last_page[1] * resp.meta.limit >= resp.meta.total[1]
           /\ (resp.meta.last_page[1] - 1) * resp.meta.limit < resp.meta.total[1]
           /\ resp.meta.last_page[1] >= 0

(***************************************************************************)
(* Product detail lookups (SpecDetail)                                     *)
(***************************************************************************)
\* A step in which a call of findOnePublic ends.
LookupEnds == found = NoResp /\ found' # NoResp

\* The Source Store holds an ACTIVE item with that id or slug.
ActiveInStore(idOrSlug) ==
    \E i \in DOMAIN db :
        /\ IdString(i) = idOrSlug \/ db[i].slug = idOrSlug
        /\ db[i].status = "ACTIVE"

\* The detail cache holds an ACTIVE entry for that id or slug.
ActiveInCache(idOrSlug) ==
    \E i \in DOMAIN detail :
        /\ IdString(i) = idOrSlug \/ detail[i].slug = idOrSlug
        /\ detail[i].status = "ACTIVE"

\* Call k takes a step and, with it, ends.
DetailStep(k) == detailCall'[k] # detailCall[k]
DetailEnded(k) == DetailStep(k) /\ detailCall'[k].pc = "idle"

\* C19: findOnePublic returns an item only when the Source Store holds an
\* ACTIVE item with that id or slug at the time of the call (a call that ends
\* at its cache read or at its Source Store query is compared with the Source
\* Store of that moment; a call that ends after its cache write has read the
\* item as ACTIVE), and ends not found otherwise, whatever the detail cache
\* holds.
C19_FoundIffActiveInStore ==
    [][\A k \in DetailCalls :
          (DetailEnded(k) /\ found'.outcome # "threw") =>
              IF detailCall[k].pc = "set"
              THEN found'.outcome = "returned"
              ELSE /\ found'.outcome = "returned" <=> ActiveInStore(found'.key)
                   /\ found'.outcome # "returned" => found'.outcome = "notFound"]_vars

\* The result of a call whose awaited store call rejected.
DetailThrew(k, c, dbQueried) ==
    /\ DetailEnded(k)
    /\ found' = [outcome |-> "threw", item |-> Null, dbQueried |-> dbQueried, key |-> c.key]
    /\ detail' = detail

\* C19 as the code has it, await by await: a rejection of the cache read, of
\* the Source Store query or of the cache write ends the call with that
\* rejection and leaves the detail cache as it is.  Otherwise a call whose
\* cache read finds an ACTIVE entry returns that entry and does not look at
\* the Source Store; every other call queries the Source Store, ends not found
\* when the Source Store holds no ACTIVE item with that id or slug at that
\* moment, and otherwise maps the item it read, stores it in the detail cache
\* and returns it.
C19_FoundIffCachedOrActive ==
    [][\A k \in DetailCalls : DetailStep(k) =>
          LET c == detailCall[k]
          IN  CASE c.pc = "get" ->
                     \/ DetailThrew(k, c, FALSE)
                     \/ /\ detail' = detail
                        /\ IF ActiveInCache(c.key)
                           THEN /\ DetailEnded(k)
                                /\ found' = [outcome |-> "returned",
                                             item |-> getProductDetail(detail, c.key),
                                             dbQueried |-> FALSE, key |-> c.key]
                           ELSE detailCall'[k].pc = "find" /\ found' = found
                [] c.pc = "find" ->
                     \/ DetailThrew(k, c, TRUE)
                     \/ /\ detail' = detail
                        /\ IF ActiveInStore(c.key)
                           THEN /\ detailCall'[k].pc = "set"
                                /\ found' = found
                                /\ \E i \in DOMAIN db :
                                      /\ IdString(i) = c.key \/ db[i].slug = c.key
                                      /\ detailCall'[k].item[1].id = i
                                      /\ detailCall'[k].item[1].name = db[i].name
                                      /\ detailCall'[k].item[1].status = "ACTIVE"
                           ELSE /\ DetailEnded(k)
                                /\ found' = [outcome |-> "notFound", item |-> Null,
                                             dbQueried |-> TRUE, key |-> c.key]
                [] c.pc = "set" ->
                     \/ DetailThrew(k, c, TRUE)
                     \/ /\ DetailEnded(k)
                        /\ found' = [outcome |-> "returned", item |-> c.item,
                                     dbQueried |-> TRUE, key |-> c.key]
                        /\ detail' = Put(detail, c.item[1].id, c.item[1])
                [] OTHER -> detailCall'[k].pc = "get"]_vars

\* A lookup by slug was answered from the detail cache with an item that the
\* Source Store no longer holds.
C19_Witness ==
    /\ found # NoResp
    /\ found.key = IdText(1)
    /\ found.outcome = "returned"
    /\ ~found.dbQueried
    /\ 1 \notin DOMAIN db

(***************************************************************************)
(* Bought together (SpecTogether)                                          *)
(***************************************************************************)
\* C20: the list findBoughtTogether returns is ordered by co-occurrence count
\* descending, computed on a cache miss or served from the cache: a product
\* never comes before one that shares more orders with the given product, by
\* the counts of the groupBy the list was computed from.
C20_OrderedByCoOccurrence ==
    [][(bought = NoResp /\ bought' # NoResp /\ bought'.outcome = "returned") =>
          \A k \in 1..(Len(bought'.data) - 1) :
              bought'.counts[bought'.data[k].id] >= bought'.counts[bought'.data[k + 1].id]]_vars

(***************************************************************************)
(* Properties of the personalized feed (SpecFeed)                          *)
(***************************************************************************)
\* C21: getPersonalizedFeed serves products of the global trending set only
\* to a user whose affinity set is empty when the call reads it; for a user
\* whose affinity set is not empty every page, the pages past the end of the
\* set included, holds products of the affinity set alone.
C21_TrendingOnlyWithoutSignal ==
    (feed # NoResp /\ feed.outcome = "returned") =>
        IF Len(feed.own) = 0
        THEN feed.trendingRead
        ELSE /\ Range(feed.productIds) \subseteq Range(feed.own)
             /\ feed.trendingRead => feed.productIds = <<>>

(***************************************************************************)
(* Properties of the Query Planner's decision and query (SpecRead)         *)
(***************************************************************************)
\* The request supplies a filter: a search term that is not blank, or a tag,
\* a price bound, a rating or a non-empty list of locations, whatever its value.
Supplied(query) ==
    \/ Len(SearchKeyword(query)) > 0
    \/ query.tag # Null
    \/ query.minPrice # Null
    \/ query.maxPrice # Null
    \/ query.rating # Null
    \/ HasLocations(query)

\* C22: findAllPublic calls the index exactly when the request supplies a
\* search term that is not blank after trimming, or a tag, minPrice, maxPrice,
\* rating (the value 0 included) or a non-empty list of locations; otherwise
\* it answers from the Source Store without calling the index.
C22_IndexIffFilterSupplied ==
    resp # NoResp => (resp.indexCalled <=> Supplied(resp.query))

\* The field and the direction the request's sort key stands for.
SortMapping(query) ==
    IF query.sort = Some("price_asc") THEN [field |-> "price", dir |-> "ASC"]
    ELSE IF query.sort = Some("price_desc") THEN [field |-> "price", dir |-> "DESC"]
    ELSE IF query.sort = Some("newest") THEN [field |-> "createdAt", dir |-> "DESC"]
    ELSE [field |-> "salesCount", dir |-> "DESC"]

\* C23: for every sort key the index path and the Source Store fallback of
\* findAllPublic order by the same field and direction: the default by sales
\* count descending, price_asc by price ascending, price_desc by price
\* descending, newest by creation time descending; and both take the page of
\* offset (page - 1) * limit and size limit.
C23_SameOrdering ==
    resp # NoResp =>
        /\ IndexSortField(resp.query) = SortMapping(resp.query).field
        /\ IndexSortDir(resp.query) = SortMapping(resp.query).dir
        /\ DbSortField(resp.query) = SortMapping(resp.query).field
        /\ DbSortDir(resp.query) = SortMapping(resp.query).dir
        /\ (resp.outcome = "returned" /\ resp.path = "db") =>
              resp.data = DbPath(db, resp.query).data

\* A request value findAllPublic interpolates into ftQuery: the parameter it
\* comes from, the function it was passed through ("none" when it is
\* interpolated as it came) and the text or number that reaches the string.
Interpolated(param, via, value) == [param |-> param, via |-> via, value |-> value]

\* The request values of ftQuery, in the order of their interpolation: the
\* name tokens and the tag of the text clause, the tag clause, the locations,
\* the price bounds (the defaults -Infinity and Infinity are no request
\* values) and the rating.
Interpolations(query) ==
    LET kw == SearchKeyword(query)
    IN  (IF kw # <<>> /\ escapeRediSearchText(kw) # <<>>
         THEN <<Interpolated("search", "escapeRediSearchText", escapeRediSearchText(kw)),
                Interpolated("search", "sanitizeTagKeyword", sanitizeTagKeyword(kw))>>
         ELSE <<>>)
        \o (IF StrTruthy(query.tag)
            THEN <<Interpolated("tag", "sanitizeTagKeyword", sanitizeTagKeyword(query.tag[1]))>>
            ELSE <<>>)
        \o (IF HasLocations(query)
            THEN [k \in 1..Len(query.locations[1]) |->
                     Interpolated("locations", "sanitizeTagKeyword",
                                  sanitizeTagKeyword(query.locations[1][k]))]
            ELSE <<>>)
        \o (IF query.minPrice # Null
            THEN <<Interpolated("minPrice", "none", query.minPrice[1])>> ELSE <<>>)
        \o (IF query.maxPrice # Null
            THEN <<Interpolated("maxPrice", "none", query.maxPrice[1])>> ELSE <<>>)
        \o (IF NumTruthy(query.rating)
            THEN <<Interpolated("rating", "none", query.rating[1])>> ELSE <<>>)

\* The values the clauses of the query string hold, clause by clause.
ClauseValues(q) ==
    (IF q.text = NoClause THEN <<>> ELSE <<q.text[1].tag>>)
    \o (IF q.tag = NoClause THEN <<>> ELSE <<q.tag[1]>>)
    \o (IF q.location = NoClause THEN <<>> ELSE q.location[1])
    \o (IF q.price = NoClause THEN <<>> ELSE q.price[1].min \o q.price[1].max)
    \o (IF q.rating = NoClause THEN <<>> ELSE <<q.rating[1]>>)

\* C24: every request value findAllPublic concatenates into the query string
\* of the index (search term, tag, each location, minPrice, maxPrice, rating)
\* was first passed through escapeRediSearchText or sanitizeTagKeyword.
C24_EveryValueSanitized ==
    (resp # NoResp /\ resp.indexCalled) =>
        LET its == Interpolations(resp.query)
            values == [k \in 1..Len(its) |-> its[k].value]
            inClauses == IF Len(its) > 0 /\ its[1].via = "escapeRediSearchText"
                         THEN Tail(values) ELSE values
        IN  /\ inClauses = ClauseValues(FtQuery(resp.query))
            /\ \A k \in 1..Len(its) :
                  its[k].via \in {"escapeRediSearchText", "sanitizeTagKeyword"}

(***************************************************************************)
(* The Tag Sanitizer over raw tag values (SpecTags)                        *)
(***************************************************************************)
\* A tag of n characters.
LongTag(n) == [k \in 1..n |-> "x"]

\* The raw tag values of the model.
RawTags ==
    {
      \* the example of the specification: a URL, a repeated tag, metacharacters
      TagArray(<<StrElem(<<" ", " ", "h", "t", "t", "p", ":", "/", "/", "x", "?", "q", "=",
        "s", "h", "o", "e", "s", " ", " ">>), StrElem(<<"s", "h", "o", "e",
        "s">>), StrElem(<<"{", "b", "a", "d", "}", "t", "a", "g">>)>>),
      \* an array element that holds a comma
      TagArray(<<StrElem(<<"a", ",", "a">>)>>),
      \* an array element that ends with a comma, and an element that is no string
      TagArray(<<StrElem(<<"b", ",">>), NonStrElem>>),
      \* an empty array
      TagArray(<<>>),
      \* a JSON-encoded array with a repeated tag and a number
      TagString(<<"[", "\"", "s", "h", "\"", ",", " ", "\"", "s", "h", "\"", ",", " ", "7",
        "]">>),
      \* a JSON-encoded string, which is no array
      TagString(<<"\"", "s", "h", "\"">>),
      \* a comma-delimited text with empty and repeated parts
      TagString(<<"s", "h", ",", " ", "v", "|", ",", ",", "s", "h">>),
      \* a comma-delimited text with an encoded comma
      TagString(<<"c", "%", "2", "C", "c">>),
      \* a text that is no URI component, with metacharacters
      TagString(<<"%", "z", "z", "<", "b", ">">>),
      \* a keyword parameter and inner whitespace
      TagString(<<"x", "&", "k", "e", "y", "w", "o", "r", "d", "=", "h", "a", "t", " ",
        " ", "c", "a", "p">>),
      \* the empty text
      TagString(<<>>),
      \* a tag of 49 characters
      TagString(LongTag(49)),
      \* a tag of 50 characters before a short one
      TagArray(<<StrElem(LongTag(50)), StrElem(<<"s", "h">>)>>),
      \* the escape of a grave accent, and of a vertical tab between two words
      TagString(<<"%", "6", "0", ",", "a", "%", "0", "B", "b">>),
      \* the escapes of a two-byte character, and of a byte that is none
      TagString(<<"%", "C", "3", "%", "A", "9", ",", "%", "8", "0", "x">>),
      \* a JSON-encoded object
      TagString(<<"{", "\"", "a", "\"", ":", "1", "}">>),
      \* a JSON-encoded array with a nested array, an object and \u and \b escapes
      TagString(<<"[", "[", "\"", "a", "\"", "]", ",", "{", "\"", "b", "\"", ":", "\"", "c",
        "\"", "}", ",", "\"", "\\", "u", "0", "0", "4", "1", "\\", "b", "\"", "]">>),
      \* a value that is neither an array nor a text
      TagOther }

\* Product 1 exists with any of the raw tag values in its systemTags column;
\* the Index Store is empty and no sync was called yet.
InitTags ==
    /\ db \in {[i \in {1} |-> [Item(1, "ACTIVE", c) EXCEPT !.systemTags = raw]] :
                 c \in Contents, raw \in RawTags}
    /\ hashes = EmptyTable
    /\ sug = EmptyTable
    /\ sugSeen = EmptyTable
    /\ store0 = [hashes |-> EmptyTable, sug |-> EmptyTable]
    /\ Idle
    /\ index = IndexWith(CurrentSchema)
    /\ startup = StartupOf(index)
    /\ boot = "done"

\* Full Sync and Incremental Sync calls over the catalog.
NextTags ==
    \/ FullSyncCall
    \/ FullSyncSteps
    \/ IncSyncSteps

SpecTags == InitTags /\ [][NextTags]_vars

\* The elements of a sanitizer output: none for the empty text.
TagElements(out) == IF out = <<>> THEN <<>> ELSE SplitComma(out, <<>>)

\* C25: for every raw tag value (array of strings, JSON-encoded array,
\* comma-delimited text, any other value) the comma-separated elements of the
\* output of cleanSystemTags hold no dangerous character, and none of them is
\* empty, repeated or of 50 characters or more.
C25_CleanTagElements ==
    \A i \in DOMAIN hashes :
        LET elems == TagElements(hashes[i].systemTags)
        IN  /\ \A k \in 1..Len(elems) :
                  /\ Range(elems[k]) \cap DangerousChars = {}
                  /\ Len(elems[k]) > 0
                  /\ Len(elems[k]) < 50
            /\ \A j, k \in 1..Len(elems) : j # k => elems[j] # elems[k]

(***************************************************************************)
(* Properties of the Result Cache under mutations (SpecServe)              *)
(***************************************************************************)
\* C26: findAllPublic never reads the Result Cache: every call, also one for
\* a request whose earlier page is still cached, calls the index or queries
\* the Source Store, and the page it returns is built from what the index,
\* findMany and count answered during the call, whatever is stored under the
\* key of the request.
C26_NeverReadsCache ==
    [][CallEnds =>
          /\ resp'.indexCalled \/ resp'.dbQueried
          /\ (resp'.outcome = "returned" /\ resp'.path = "index") =>
                /\ resp'.data = IndexPath(resp'.query, ReplyFor(resp'.query, resp'.fault)).data
                /\ resp'.meta = IndexPath(resp'.query, ReplyFor(resp'.query, resp'.fault)).meta
          /\ (resp'.outcome = "returned" /\ resp'.path = "db") =>
                \A k \in Calls : call'[k] # call[k] =>
                    /\ resp'.data = IF call[k].rows # Null THEN call[k].rows[1]
                                     ELSE DbRows(db, resp'.query)
                    /\ resp'.meta.total = IF call[k].total # Null THEN call[k].total
                                           ELSE Some(DbCount(db, resp'.query))
          /\ (resp'.outcome = "returned" /\ resp'.path \notin {"index", "db"}) =>
                /\ resp'.path = "dbError"
                /\ resp'.data = <<>>]_vars

\* A call for a request whose page is cached has just returned a different
\* page, read from the Source Store.
C26_Witness ==
    /\ resp # NoResp
    /\ resp.outcome = "returned"
    /\ resp.path = "db"
    /\ resp.dbQueried
    /\ resp.query \in DOMAIN cache
    /\ cache[resp.query].data # resp.data

(***************************************************************************)
(* Properties of the suggestion dictionary under syncs (Spec)              *)
(***************************************************************************)
\* C27: after any sequence of Full Sync and Incremental Sync calls, every
\* SuggestionEntry of the dictionary was last written by a sync that read its
\* item as ACTIVE, so that searchSuggestions, which reads the dictionary,
\* returns no item whose most recent sync saw it non-ACTIVE.
C27_SuggestionsSeenActive ==
    \A name \in DOMAIN sug : name \in DOMAIN sugSeen /\ sugSeen[name] = "ACTIVE"

====
